---- MODULE Spec2Model ----
(***************************************************************************)
(* A model of the content-extraction pipeline of copilot_sidebar:          *)
(*   - the markdown renderer and boilerplate filter of                     *)
(*     src/content-extractor.js (renderMarkdown, filterMarkdown),          *)
(*   - the scoring and the confidence gate of                              *)
(*     src/enhanced-content-extractor.js.                                  *)
(*                                                                         *)
(* Text is a sequence of atoms.  An atom is a newline, a space, one        *)
(* punctuation character the filter's regular expressions look at, or a    *)
(* run of text that none of them can split (a word, a link).  Regular      *)
(* expressions are kept as syntax trees and run by a backtracking matcher  *)
(* with JavaScript's priorities (greedy, lazy, alternation order,          *)
(* lookahead), so a replace does what String.prototype.replace does.       *)
(***************************************************************************)
EXTENDS Integers, Sequences, FiniteSets, TLC

\* ------------------------------------------------------------------ atoms

NL == "\n"
SP == " "
HASH == "#"
DASH == "-"
COLON == ":"

\* \s of the regular expressions, over the atoms of the model
WS == {NL, SP}

\* ---------------------------------------------------- sequences of atoms

\* the least and the greatest element of a non-empty set of integers
Min(S) == CHOOSE x \in S : \A y \in S : x <= y
Max(S) == CHOOSE x \in S : \A y \in S : y <= x

RECURSIVE FlatRange(_, _, _)
\* the concatenation of the sequences xss[lo..hi]
FlatRange(xss, lo, hi) ==
    IF lo > hi THEN <<>>
    ELSE IF lo = hi THEN xss[lo]
    ELSE LET mid == (lo + hi) \div 2
         IN  FlatRange(xss, lo, mid) \o FlatRange(xss, mid + 1, hi)

\* the concatenation of a sequence of sequences
Flatten(xss) == FlatRange(xss, 1, Len(xss))

\* Array.prototype.join
Join(xs, sep) ==
    Flatten([k \in 1..(2 * Len(xs) - 1) |->
                IF k % 2 = 1 THEN xs[(k + 1) \div 2] ELSE sep])

\* xs without repeated elements, first occurrences kept in order
Dedup(xs) ==
    LET firsts == {k \in 1..Len(xs) : \A j \in 1..(k - 1) : xs[j] # xs[k]}
    IN  [n \in 1..Cardinality(firsts) |->
            xs[CHOOSE k \in firsts : Cardinality({j \in firsts : j < k}) = n - 1]]

\* ------------------------------------------------ regular expressions

\* one atom of the set c
Cls(c) == [t |-> "cls", c |-> c]
\* one atom not in the set c
NotCls(c) == [t |-> "ncls", c |-> c]
\* [\s\S]
AnyAtom == NotCls({})
\* [^\n]
NotNL == NotCls({NL})
Cat(xs) == [t |-> "seq", xs |-> xs]
Alt(xs) == [t |-> "alt", xs |-> xs]
\* x{lo,hi}, greedy or lazy; hi = Unbounded for x{lo,}
Unbounded == -1
Rep(x, lo, hi, greedy) == [t |-> "rep", x |-> x, lo |-> lo, hi |-> hi, greedy |-> greedy]
Star(x) == Rep(x, 0, Unbounded, TRUE)
Plus(x) == Rep(x, 1, Unbounded, TRUE)
Opt(x) == Rep(x, 0, 1, TRUE)
LazyStar(x) == Rep(x, 0, Unbounded, FALSE)
\* (?=x)
Look(x) == [t |-> "look", x |-> x]
\* ^ and $ without the m flag: start and end of input only
Bol == [t |-> "bol"]
Eol == [t |-> "eol"]
\* a literal text: its atoms in order
Word(w) == [t |-> "lit", w |-> w]

\* The i flag: an atom is compared by its case-folded form.  The only atom
\* of the model that differs from its folded form is "popular".
CaseFold(a) == IF a = "popular" THEN "Popular" ELSE a

\* does the atom a match the one-atom expression x
AtomMatches(x, a) ==
    IF x.t = "cls" THEN CaseFold(a) \in x.c ELSE CaseFold(a) \notin x.c

\* one-atom expressions: a class or its complement
IsAtomic(x) == x.t \in {"cls", "ncls"}

\* the longest run of atoms matching x from position i, at most hi long
RunLen(x, s, i, hi) ==
    LET room == Len(s) - i + 1
        cap == IF hi = Unbounded \/ hi > room THEN room ELSE hi
    IN  Max({k \in 0..cap : \A j \in i..(i + k - 1) : AtomMatches(x, s[j])})

\* x{lo,hi} of a one-atom x: every run length from lo to the longest, the
\* longest first when greedy, the shortest first when lazy
EndsRun(re, s, i) ==
    LET r == RunLen(re.x, s, i, re.hi)
    IN  IF r < re.lo THEN <<>>
        ELSE [n \in 1..(r - re.lo + 1) |->
                IF re.greedy THEN i + r - n + 1 ELSE i + re.lo + n - 1]

\* does the literal w stand at position i of s, compared under the i flag
LitAt(w, s, i) ==
    /\ i + Len(w) - 1 <= Len(s)
    /\ \A k \in 1..Len(w) : CaseFold(s[i + k - 1]) = CaseFold(w[k])

RECURSIVE Ends(_, _, _)
RECURSIVE EndsCat(_, _, _, _, _)
RECURSIVE EndsRep(_, _, _, _)

\* The positions at which a match of re that starts at position i of s can
\* end, in the order a backtracking matcher tries them (a position is the
\* index of the next atom to read; Len(s) + 1 is the end of input).
Ends(re, s, i) ==
    CASE re.t = "cls"  -> IF i <= Len(s) /\ AtomMatches(re, s[i]) THEN <<i + 1>> ELSE <<>>
      [] re.t = "ncls" -> IF i <= Len(s) /\ AtomMatches(re, s[i]) THEN <<i + 1>> ELSE <<>>
      [] re.t = "lit"  -> IF LitAt(re.w, s, i) THEN <<i + Len(re.w)>> ELSE <<>>
      [] re.t = "bol"  -> IF i = 1 THEN <<i>> ELSE <<>>
      [] re.t = "eol"  -> IF i = Len(s) + 1 THEN <<i>> ELSE <<>>
      [] re.t = "look" -> IF Ends(re.x, s, i) # <<>> THEN <<i>> ELSE <<>>
      [] re.t = "seq"  -> EndsCat(re.xs, 1, Len(re.xs), s, <<i>>)
      [] re.t = "alt"  -> Dedup(Flatten([k \in 1..Len(re.xs) |-> Ends(re.xs[k], s, i)]))
      [] re.t = "rep"  -> IF IsAtomic(re.x) THEN EndsRun(re, s, i)
                          ELSE Dedup(EndsRep(re, s, i, 0))

\* xs[lo..hi] matched in sequence from each of the positions starts
EndsCat(xs, lo, hi, s, starts) ==
    IF lo > hi \/ starts = <<>> THEN starts
    ELSE IF lo = hi
    THEN Dedup(Flatten([n \in 1..Len(starts) |-> Ends(xs[lo], s, starts[n])]))
    ELSE LET mid == (lo + hi) \div 2
         IN  EndsCat(xs, mid + 1, hi, s, EndsCat(xs, lo, mid, s, starts))

\* n iterations of re.x are done; an iteration that consumes nothing ends
\* the repetition
EndsRep(re, s, i, n) ==
    LET here == IF n >= re.lo THEN <<i>> ELSE <<>>
        steps == SelectSeq(Ends(re.x, s, i), LAMBDA e : e > i)
        more == IF re.hi = Unbounded \/ n < re.hi
                THEN Flatten([k \in 1..Len(steps) |-> EndsRep(re, s, steps[k], n + 1)])
                ELSE <<>>
    IN  IF re.greedy THEN more \o here ELSE here \o more

RECURSIVE ReplaceFrom(_, _, _, _)
\* the replace loop from position i: the leftmost position with a match,
\* the text before it kept, the search resumed where the match ended (one
\* atom further after an empty match)
ReplaceFrom(re, s, repl, i) ==
    IF i > Len(s) + 1 THEN <<>>
    ELSE LET hits == {j \in i..(Len(s) + 1) : Ends(re, s, j) # <<>>}
         IN  IF hits = {} THEN SubSeq(s, i, Len(s))
             ELSE LET j == Min(hits)
                      e == Ends(re, s, j)[1]
                  IN  SubSeq(s, i, j - 1) \o repl \o
                      (IF e > j THEN ReplaceFrom(re, s, repl, e)
                       ELSE IF j > Len(s) THEN <<>>
                       ELSE <<s[j]>> \o ReplaceFrom(re, s, repl, j + 1))

\* s.replace(new RegExp(re, 'g'), repl): leftmost matches, left to right,
\* the search resuming where the last match ended
Replace(re, s, repl) == ReplaceFrom(re, s, repl, 1)

\* String.prototype.trimStart and trimEnd
TrimLeft(s) ==
    LET ks == {k \in 1..Len(s) : s[k] \notin WS}
    IN  IF ks = {} THEN <<>> ELSE SubSeq(s, Min(ks), Len(s))

TrimRight(s) ==
    LET ks == {k \in 1..Len(s) : s[k] \notin WS}
    IN  IF ks = {} THEN <<>> ELSE SubSeq(s, 1, Max(ks))

\* String.prototype.trim
Trim(s) == TrimRight(TrimLeft(s))

\* ------------------------------------------------------ filterMarkdown

\* words separated by single spaces
Phrase(ws) == Join([k \in 1..Len(ws) |-> <<ws[k]>>], <<SP>>)
\* the regular expression of a literal phrase
Kw(ws) == Word(Phrase(ws))

Hashes(lo, hi) == Rep(Cls({HASH}), lo, hi, TRUE)
WsStar == Star(Cls(WS))
WsPlus == Plus(Cls(WS))

\* (?=(?:\n\n|\n|^)#{1,2} |\n\n---\n|\n\n\*\*\*\n|$)
sectionBoundary ==
    Look(Alt(<<
        Cat(<<Alt(<<Word(<<NL, NL>>), Cls({NL}), Bol>>), Hashes(1, 2), Cls({SP})>>),
        Word(<<NL, NL, DASH, DASH, DASH, NL>>),
        Word(<<NL, NL, "*", "*", "*", NL>>),
        Eol>>))

\* (?:^|\n{1,2})(?:#{1,3}|\*\*)?\s*
SectionStart ==
    <<Alt(<<Bol, Rep(Cls({NL}), 1, 2, TRUE)>>),
      Opt(Alt(<<Hashes(1, 3), Word(<<"*", "*">>)>>)),
      WsStar>>

\* (?:^|\n{1,2})(?:#{1,3}|\*\*)?\s*(?:kws)\s*:?\s*\n[\s\S]*? + sectionBoundary
SectionPattern(kws) ==
    Cat(SectionStart \o
        <<Alt(kws), WsStar, Opt(Cls({COLON})), WsStar, Cls({NL}),
          LazyStar(AnyAtom), sectionBoundary>>)

\* ['\u2019]: the ASCII apostrophe and the right single quotation mark
Apostrophe == {"'", "RSQUO"}

RecommendationKeywords ==
    <<Kw(<<"Read", "More">>), Kw(<<"Read", "Next">>), Kw(<<"Also", "Read">>),
      Cat(<<Cls({"Related"}),
            Opt(Alt(<<Word(<<SP, "Articles">>), Word(<<SP, "Content">>)>>))>>),
      Kw(<<"Further", "Reading">>),
      Cat(<<Cls({"More"}), WsPlus, Cls({"from"}), WsPlus, Plus(NotNL)>>),
      Cat(<<Cls({"Don"}), Cls(Apostrophe), Word(<<"t", SP, "Miss">>)>>),
      Kw(<<"Up", "Next">>), Kw(<<"Recommended">>),
      Cat(<<Cls({"Trending"}), Opt(Cat(<<WsPlus, Cls({"in"}), WsPlus, Plus(NotNL)>>))>>),
      Kw(<<"Popular">>), Kw(<<"In", "Case", "You", "Missed", "It">>),
      Kw(<<"You", "Might", "Also", "Like">>), Kw(<<"Continue", "Reading">>),
      Kw(<<"Related", "Stories">>), Kw(<<"More", "Stories">>), Kw(<<"Latest", "News">>),
      Cat(<<Cls({"Editor"}), Cls(Apostrophe), Word(<<"s", SP, "Picks">>)>>),
      Kw(<<"What", "to", "Read", "Next">>)>>

SocialKeywords ==
    <<Kw(<<"Share", "this", "article">>), Kw(<<"Follow", "us", "on">>),
      Kw(<<"Connect", "with", "us">>), Kw(<<"Join", "our", "newsletter">>),
      Kw(<<"Sign", "up", "for", "updates">>), Kw(<<"Enter", "your", "email">>),
      Kw(<<"Subscribe", "to", "our", "newsletter">>),
      Kw(<<"Get", "the", "latest", "updates">>),
      Cat(<<Cls({"Don"}), Cls(Apostrophe), Word(<<"t", SP, "miss", SP, "out">>)>>)>>

CommentKeywords ==
    <<Kw(<<"Comments">>), Kw(<<"Discussions">>), Kw(<<"Leave", "a", "Reply">>),
      Kw(<<"Add", "Your", "Comment">>), Kw(<<"Reader", "Comments">>)>>

TagKeywords == <<Kw(<<"Tags">>), Kw(<<"Categories">>), Kw(<<"Filed", "Under">>)>>

\* (?:About the Author|Author Bio|By [^\n]{5,50})\s*[:]?\s*\n(?:[^\n]+\n){1,5}
\* (an atom after "By " stands for 5 to 50 characters)
AuthorPattern ==
    Cat(SectionStart \o
        <<Alt(<<Kw(<<"About", "the", "Author">>), Kw(<<"Author", "Bio">>),
                Cat(<<Cls({"By"}), Cls({SP}), NotNL>>)>>),
          WsStar, Opt(Cls({COLON})), WsStar, Cls({NL}),
          Rep(Cat(<<Plus(NotNL), Cls({NL})>>), 1, 5, TRUE), sectionBoundary>>)

\* a markdown link [text](url) is one atom
LinkAtoms == {"[x](y)"}
\* \d{4}
YearAtoms == {"2024"}

\* \n(?:\s*[-*]\s*\[[^\]]+\]\([^)]+\)\s*){3,}\n
LinkListPattern ==
    Cat(<<Cls({NL}),
          Rep(Cat(<<WsStar, Cls({DASH, "*"}), WsStar, Cls(LinkAtoms), WsStar>>),
              3, Unbounded, TRUE),
          Cls({NL})>>)

\* \n\n(?:(?:\*\*Note\*\*|Disclaimer|Copyright|All rights reserved|Privacy Policy
\*      |Terms of Use)|(?:[^\n]+ (c) \d{4})|(?:(c) \d{4} [^\n]+))[\s\S]*?$
FooterPattern ==
    Cat(<<Cls({NL}), Cls({NL}),
          Alt(<<Alt(<<Word(<<"*", "*", "Note", "*", "*">>), Kw(<<"Disclaimer">>),
                      Kw(<<"Copyright">>), Kw(<<"All", "rights", "reserved">>),
                      Kw(<<"Privacy", "Policy">>), Kw(<<"Terms", "of", "Use">>)>>),
                Cat(<<Plus(NotNL), Cls({SP}), Cls({"COPYSIGN"}), Cls({SP}), Cls(YearAtoms)>>),
                Cat(<<Cls({"COPYSIGN"}), Cls({SP}), Cls(YearAtoms), Cls({SP}), Plus(NotNL)>>)>>),
          LazyStar(AnyAtom), Eol>>)

\* the built-in patterns, used when no custom filters are given
DefaultPatterns ==
    <<SectionPattern(RecommendationKeywords), SectionPattern(SocialKeywords),
      SectionPattern(CommentKeywords), AuthorPattern, SectionPattern(TagKeywords),
      LinkListPattern, FooterPattern>>

\* Related(?:\s+Content)?|Editor['\u2019]s\s+Picks|Trending(?:\s+in\s+[^\n]+)?
\* |More\s+in\s+[^\n]+|More\s+from\s+[^\n]+|Recommended|Popular
HeadingKeywords ==
    Alt(<<Cat(<<Cls({"Related"}), Opt(Cat(<<WsPlus, Cls({"Content"})>>))>>),
          Cat(<<Cls({"Editor"}), Cls(Apostrophe), Cls({"s"}), WsPlus, Cls({"Picks"})>>),
          Cat(<<Cls({"Trending"}), Opt(Cat(<<WsPlus, Cls({"in"}), WsPlus, Plus(NotNL)>>))>>),
          Cat(<<Cls({"More"}), WsPlus, Cls({"in"}), WsPlus, Plus(NotNL)>>),
          Cat(<<Cls({"More"}), WsPlus, Cls({"from"}), WsPlus, Plus(NotNL)>>),
          Kw(<<"Recommended">>), Kw(<<"Popular">>)>>)

\* (?:^|\n)##\s*(?:HeadingKeywords)[^\n]*\n[\s\S]*?(?=(?:\n#{1,2}\s|$))
RemovableSection ==
    Cat(<<Alt(<<Bol, Cls({NL})>>), Cls({HASH}), Cls({HASH}), WsStar, HeadingKeywords,
          Star(NotNL), Cls({NL}), LazyStar(AnyAtom),
          Look(Alt(<<Cat(<<Cls({NL}), Hashes(1, 2), Cls(WS)>>), Eol>>))>>)

\* the same pattern for headings of one or two hashes only
standaloneHeadingShallow ==
    Cat(<<Alt(<<Bol, Cls({NL})>>), Hashes(1, 2), WsStar, HeadingKeywords, WsStar,
          Look(Cat(<<Cls({NL}), Alt(<<Cat(<<Hashes(1, 6), Cls(WS)>>), Eol>>)>>))>>)

\* (?:^|\n)(?:#{1,4})\s*(?:HeadingKeywords)\s*(?=\n(?:#{1,6}\s|$))
standaloneHeading ==
    Cat(<<Alt(<<Bol, Cls({NL})>>), Hashes(1, 4), WsStar, HeadingKeywords, WsStar,
          Look(Cat(<<Cls({NL}), Alt(<<Cat(<<Hashes(1, 6), Cls(WS)>>), Eol>>)>>))>>)

\* the positions of the separator atom in s
SepPositions(s, sep) == {i \in 1..Len(s) : s[i] = sep}

\* the k-th separator position, counted from the left
SepAt(s, sep, k) ==
    CHOOSE i \in SepPositions(s, sep) :
        Cardinality({j \in SepPositions(s, sep) : j < i}) = k - 1

\* String.prototype.split on one separator atom
Split(s, sep) ==
    LET n == Cardinality(SepPositions(s, sep)) + 1
    IN  [k \in 1..n |->
            SubSeq(s, IF k = 1 THEN 1 ELSE SepAt(s, sep, k - 1) + 1,
                      IF k = n THEN Len(s) ELSE SepAt(s, sep, k) - 1)]

\* A JavaScript value that is null or a string
Null == [null |-> TRUE, s |-> <<>>]
Str(s) == [null |-> FALSE, s |-> s]
\* the truthiness of a string-or-null: null and '' are falsy
Truthy(v) == ~v.null /\ v.s # <<>>

\* The atoms of a custom filter line that are regular-expression syntax.
\* new RegExp(line) throws for a line of the model exactly when its "("
\* and ")" do not pair up; a line of words and spaces is a literal.
Count(s, a) == Cardinality({k \in 1..Len(s) : s[k] = a})
RegExpThrows(line) == Count(line, "(") # Count(line, ")")
RegExpOf(line) == Word(SelectSeq(line, LAMBDA a : a \notin {"(", ")"}))

\* lines.filter(line => line.trim() && !line.trim().startsWith('#')).map(trim)
CustomLines(customFilters) ==
    LET lines == Split(customFilters.s, NL)
        kept == SelectSeq(lines, LAMBDA l : Trim(l) # <<>> /\ Head(Trim(l)) # HASH)
    IN  [k \in 1..Len(kept) |-> Trim(kept[k])]

\* the patterns of one run, each compiled or failing to compile
PatternsOf(customFilters) ==
    IF Truthy(customFilters)
    THEN LET ls == CustomLines(customFilters)
         IN  [k \in 1..Len(ls) |->
                 IF RegExpThrows(ls[k]) THEN [ok |-> FALSE, src |-> ls[k]]
                 ELSE [ok |-> TRUE, src |-> ls[k], re |-> RegExpOf(ls[k])]]
    ELSE [k \in 1..Len(DefaultPatterns) |->
             [ok |-> TRUE, src |-> <<>>, re |-> DefaultPatterns[k]]]

\* Statement order: v is computed before the evaluation goes on with x.
After(v, x) == IF v = v THEN x ELSE x

\* one iteration of patterns.forEach:
\* try { content = content.replace(new RegExp(pattern, 'gi'), '\n\n') }
\* catch { console.warn(...) }
ApplyPattern(p, st) ==
    IF p.ok THEN [st EXCEPT !.content = Replace(p.re, st.content, <<NL, NL>>)]
    ELSE [st EXCEPT !.warned = Append(st.warned, p.src)]

RECURSIVE ApplyPatternsAbort(_, _, _, _)
\* a forEach without the try/catch around each rule: the first rule that
\* does not compile ends the loop
ApplyPatternsAbort(ps, lo, hi, st) ==
    IF lo > hi \/ st.warned # <<>> THEN st
    ELSE IF lo = hi THEN ApplyPattern(ps[lo], st)
    ELSE LET mid == (lo + hi) \div 2
             half == ApplyPatternsAbort(ps, lo, mid, st)
         IN  After(half, ApplyPatternsAbort(ps, mid + 1, hi, half))

RECURSIVE ApplyPatterns(_, _, _, _)
\* the iterations lo..hi of patterns.forEach, in order
ApplyPatterns(ps, lo, hi, st) ==
    IF lo > hi THEN st
    ELSE IF lo = hi THEN ApplyPattern(ps[lo], st)
    ELSE LET mid == (lo + hi) \div 2
             half == ApplyPatterns(ps, lo, mid, st)
         IN  After(half, ApplyPatterns(ps, mid + 1, hi, half))

RECURSIVE SweepHeadings(_)
\* do { prev = content; content = content.replace(standaloneHeading, '\n') }
\* while (content !== prev)
SweepHeadings(c) ==
    LET n == Replace(standaloneHeading, c, <<NL>>)
    IN  IF n = c THEN c ELSE SweepHeadings(n)

\* content.replace(/\n{3,}/g, '\n\n').replace(/(\n\s*){2,}/g, '\n\n'); trim() + '\n'
Normalize(c) ==
    LET a == Replace(Rep(Cls({NL}), 3, Unbounded, TRUE), c, <<NL, NL>>)
        b == Replace(Rep(Cat(<<Cls({NL}), WsStar>>), 2, Unbounded, TRUE), a, <<NL, NL>>)
    IN  After(a, After(b, Trim(b) \o <<NL>>))

\* the fixed passes after the pattern loop
FixedPasses(c) ==
    LET a == Replace(RemovableSection, c, <<NL>>)
        b == SweepHeadings(a)
    IN  After(a, After(b, Normalize(b)))

\* filterMarkdown with what it logged: [content, warned]
FilterRun(markdown, customFilters) ==
    LET ps == PatternsOf(customFilters)
        st == ApplyPatterns(ps, 1, Len(ps), [content |-> markdown, warned |-> <<>>])
    IN  After(st, [content |-> FixedPasses(st.content), warned |-> st.warned])

filterMarkdown(markdown, customFilters) == FilterRun(markdown, customFilters).content

\* ------------------------------------------------------ DEFAULT_FILTERS

CommentLine(ws) == <<HASH, SP>> \o Phrase(ws)

\* the filter text the sidebar and the Alt+E command pass when none is stored
DEFAULT_FILTERS ==
    Join(<<CommentLine(<<"Recommendation", "sections">>),
           Phrase(<<"Read", "More">>), Phrase(<<"Read", "Next">>),
           Phrase(<<"Also", "Read">>), Phrase(<<"Related", "Articles">>),
           Phrase(<<"Related", "Content">>), Phrase(<<"Further", "Reading">>),
           Phrase(<<"More", "from">>), <<"Don", "'", "t", SP, "Miss">>,
           Phrase(<<"Up", "Next">>), Phrase(<<"Recommended">>), Phrase(<<"Trending">>),
           Phrase(<<"Popular">>), Phrase(<<"In", "Case", "You", "Missed", "It">>),
           Phrase(<<"You", "Might", "Also", "Like">>), Phrase(<<"Continue", "Reading">>),
           Phrase(<<"Related", "Stories">>), Phrase(<<"More", "Stories">>),
           Phrase(<<"Latest", "News">>), <<"Editor", "'", "s", SP, "Picks">>,
           Phrase(<<"What", "to", "Read", "Next">>),
           <<>>,
           CommentLine(<<"Social", "media", "and", "newsletters">>),
           Phrase(<<"Share", "this", "article">>), Phrase(<<"Follow", "us", "on">>),
           Phrase(<<"Connect", "with", "us">>), Phrase(<<"Join", "our", "newsletter">>),
           Phrase(<<"Sign", "up", "for", "updates">>), Phrase(<<"Enter", "your", "email">>),
           Phrase(<<"Subscribe", "to", "our", "newsletter">>),
           Phrase(<<"Get", "the", "latest", "updates">>),
           <<"Don", "'", "t", SP, "miss", SP, "out">>,
           <<>>,
           CommentLine(<<"Comment", "sections">>),
           Phrase(<<"Comments">>), Phrase(<<"Discussions">>),
           Phrase(<<"Leave", "a", "Reply">>), Phrase(<<"Add", "Your", "Comment">>),
           Phrase(<<"Reader", "Comments">>),
           <<>>,
           CommentLine(<<"Author", "biographies">>),
           Phrase(<<"About", "the", "Author">>), Phrase(<<"Author", "Bio">>),
           <<>>,
           CommentLine(<<"Tags", "and", "categories">>),
           Phrase(<<"Tags">>), Phrase(<<"Categories">>), Phrase(<<"Filed", "Under">>),
           <<>>,
           CommentLine(<<"Legal", "and", "footer", "content">>),
           Phrase(<<"Disclaimer">>), Phrase(<<"Copyright">>),
           Phrase(<<"All", "rights", "reserved">>), Phrase(<<"Privacy", "Policy">>),
           Phrase(<<"Terms", "of", "Use">>)>>,
         <<NL>>)

\* ------------------------------------------------------ renderMarkdown

\* the chunks chunkDomToSemanticBlocks pushes
Heading(level, text) == [type |-> "heading", level |-> level, text |-> text]
Paragraph(text) == [type |-> "paragraph", text |-> text]
List(ordered, items) == [type |-> "list", ordered |-> ordered, items |-> items]
Code(lang, code) == [type |-> "code", lang |-> lang, code |-> code]
Blockquote(text) == [type |-> "blockquote", text |-> text]

\* the lines one chunk pushes, without the blank line that follows it; the
\* atom "FENCE" is the three backquotes of a code fence
ChunkLines(c) ==
    CASE c.type = "heading" ->
            <<[k \in 1..(IF c.level < 6 THEN c.level ELSE 6) |-> HASH] \o <<SP>> \o c.text>>
      [] c.type = "paragraph" -> <<c.text>>
      [] c.type = "list" ->
            [i \in 1..Len(c.items) |->
                IF c.ordered THEN <<ToString(i), ".", SP>> \o c.items[i]
                ELSE <<DASH, SP>> \o c.items[i]]
      [] c.type = "code" -> <<<<"FENCE">> \o c.lang, c.code, <<"FENCE">>>>
      [] c.type = "blockquote" ->
            LET ls == Split(c.text, NL)
            IN  [k \in 1..Len(ls) |-> <<">", SP>> \o ls[k]]

\* let body = lines.join('\n').trim() + '\n'
RenderBody(chunks) ==
    LET lines == Flatten([k \in 1..Len(chunks) |-> ChunkLines(chunks[k]) \o <<<<>>>>])
    IN  Trim(Join(lines, <<NL>>)) \o <<NL>>

\* (text || '').replace(/\s+/g, ' ').trim(), cut to max characters; an atom
\* counts as one character
truncateInline(text, max) ==
    LET t == Trim(Replace(WsPlus, text, <<SP>>))
    IN  IF Len(t) > max THEN SubSeq(t, 1, max - 1) \o <<"ELLIPSIS">> ELSE t

\* the string form of a clock reading: new Date().toISOString()
toISOString(now) == <<"T" \o ToString(now)>>

\* one entry of the breadcrumbs line
BreadcrumbText(b) == (IF b.level = 1 THEN <<HASH, SP>> ELSE <<HASH, HASH, SP>>) \o b.text

\* a header whose title line carries the clock reading too
RenderHeaderDated(context) ==
    <<DASH, DASH, DASH, NL, "url", COLON, SP>> \o context.url
    \o <<NL, "title", COLON, SP>> \o context.title \o <<SP>> \o context.timestamp
    \o <<NL, "timestamp", COLON, SP>> \o context.timestamp \o <<NL, DASH, DASH, DASH>>

\* the header of renderMarkdown: the lines that are truthy, joined by '\n'
RenderHeader(context) ==
    LET bs == context.breadcrumbs
        lines ==
            << Str(<<DASH, DASH, DASH>>),
               Str(<<"url", COLON, SP>> \o context.url),
               Str(<<"title", COLON, SP>> \o context.title),
               Str(<<"timestamp", COLON, SP>> \o context.timestamp),
               IF context.selection.hasSelection
               THEN Str(<<"selection_excerpt", COLON, SP>>
                        \o truncateInline(context.selection.text, 300))
               ELSE Null,
               IF Len(bs) > 0
               THEN Str(<<"breadcrumbs", COLON, SP>>
                        \o Join([k \in 1..Len(bs) |-> BreadcrumbText(bs[k])], <<SP, "|", SP>>))
               ELSE Null,
               Str(<<DASH, DASH, DASH>>),
               Str(<<>>) >>
        kept == SelectSeq(lines, Truthy)
    IN  Join([k \in 1..Len(kept) |-> kept[k].s], <<NL>>)

\* renderMarkdown(chunks, include, context) with every chunk type included;
\* customFilters is window.__customFilters || null
renderMarkdown(chunks, context, customFilters) ==
    RenderHeader(context) \o filterMarkdown(RenderBody(chunks), customFilters)

\* getSelectionInfo: a selection with text has its common ancestor element as
\* container
getSelectionInfo(selection) ==
    IF selection.kind = "none"
    THEN [hasSelection |-> FALSE, text |-> <<>>, containerEl |-> "null"]
    ELSE [hasSelection |-> TRUE, text |-> selection.text,
          containerEl |-> IF selection.kind = "inBlock" THEN "block" ELSE "main"]

\* buildContext: url, title, the clock reading, the selection, the h1 and h2
\* headings of the document
buildContext(page, selectionInfo, now) ==
    [url |-> page.url, title |-> page.title, timestamp |-> toISOString(now),
     selection |-> selectionInfo,
     breadcrumbs |-> SelectSeq(page.blocks,
                        LAMBDA b : b.type = "heading" /\ b.level <= 2)]

\* chunkDomToSemanticBlocks(root): the walker visits the descendants of root,
\* never root itself, so a leaf block as root yields no chunk
chunkDomToSemanticBlocks(page, root) ==
    IF root = "block" THEN <<>> ELSE page.blocks

\* extractMainContent of content-extractor.js: the markdown it returns
extractMainContent(page, selection, customFilters, now) ==
    LET selectionInfo == getSelectionInfo(selection)
        context == buildContext(page, selectionInfo, now)
        root == IF selectionInfo.containerEl # "null" THEN selectionInfo.containerEl
                ELSE "main"
    IN  renderMarkdown(chunkDomToSemanticBlocks(page, root), context, customFilters)

\* ------------------------------------------------ the walk over the DOM

\* A node of the DOM: a text node or an element with its child nodes.  A
\* node is addressed by its path, the child indexes from the document body.
TextNode(ws) == [tag |-> "#text", text |-> ws, hidden |-> FALSE, kids |-> <<>>]
Elem(tag, kids) == [tag |-> tag, text |-> <<>>, hidden |-> FALSE, kids |-> kids]
HiddenElem(tag, kids) == [tag |-> tag, text |-> <<>>, hidden |-> TRUE, kids |-> kids]

IsElement(n) == n.tag # "#text"

RECURSIVE NodeAt(_, _)
NodeAt(n, path) ==
    IF path = <<>> THEN n ELSE NodeAt(n.kids[Head(path)], Tail(path))

\* the tags the walker of chunkDomToSemanticBlocks rejects
ChunkRejectTags == {"script", "style", "nav", "header", "footer", "aside"}

\* a filter that accepts every node
acceptNodeAlways(n) == "FILTER_ACCEPT"

\* acceptNode of the walker of chunkDomToSemanticBlocks
acceptNode(n) ==
    IF IsElement(n) /\ (n.tag \in ChunkRejectTags \/ n.hidden)
    THEN "FILTER_REJECT" ELSE "FILTER_ACCEPT"

RECURSIVE WalkChildrenFirst(_, _)
\* a walk that returns a node after the nodes below it
WalkChildrenFirst(body, path) ==
    LET n == NodeAt(body, path)
    IN  IF acceptNode(n) = "FILTER_REJECT" THEN <<>>
        ELSE Flatten([k \in 1..Len(n.kids) |-> WalkChildrenFirst(body, Append(path, k))])
             \o <<path>>

RECURSIVE WalkFrom(_, _)
\* the nodes TreeWalker.nextNode() returns inside the subtree at path, the
\* node at path first: a rejected node is skipped with its subtree
WalkFrom(body, path) ==
    LET n == NodeAt(body, path)
    IN  IF acceptNode(n) = "FILTER_REJECT" THEN <<>>
        ELSE <<path>> \o Flatten([k \in 1..Len(n.kids) |-> WalkFrom(body, Append(path, k))])

\* the nodes the walker created on root returns: root itself is never one
TreeWalk(body, root) ==
    Flatten([k \in 1..Len(NodeAt(body, root).kids) |-> WalkFrom(body, Append(root, k))])

RECURSIVE textContent(_)
\* Node.textContent: the text of every text node below, hidden or not
textContent(n) ==
    IF ~IsElement(n) THEN n.text
    ELSE Flatten([k \in 1..Len(n.kids) |-> textContent(n.kids[k])])

\* the elements that start a line of their own in innerText
BlockDisplay ==
    {"p", "div", "section", "article", "ul", "ol", "li", "pre", "blockquote",
     "h1", "h2", "h3", "h4", "h5", "h6", "aside", "nav", "header", "footer"}

RECURSIVE RenderedText(_)
\* the text of a node as rendered: nothing for a hidden element, a line
\* break around an element that is displayed as a block
RenderedText(n) ==
    IF ~IsElement(n) THEN n.text
    ELSE IF n.hidden THEN <<>>
    ELSE LET inner == Flatten([k \in 1..Len(n.kids) |-> RenderedText(n.kids[k])])
         IN  IF n.tag \in BlockDisplay /\ inner # <<>>
             THEN <<NL>> \o inner \o <<NL>> ELSE inner

\* HTMLElement.innerText: the rendered text, line breaks collapsed and none
\* at either end
innerText(n) ==
    LET t == RenderedText(n)
        ks == {k \in 1..Len(t) : ~(t[k] = NL /\ (k = 1 \/ t[k - 1] = NL))}
        kept == [j \in 1..Cardinality(ks) |->
                    t[CHOOSE k \in ks : Cardinality({i \in ks : i < k}) = j - 1]]
    IN  IF kept # <<>> /\ kept[Len(kept)] = NL
        THEN SubSeq(kept, 1, Len(kept) - 1) ELSE kept

\* cleanInline(text): 3+ newlines to 2, trailing spaces of each line cut,
\* runs of spaces to one space, trimmed (the texts of the model hold no \r
\* and no \t)
cleanInline(text) ==
    IF text = <<>> THEN <<>>
    ELSE LET a == Replace(Rep(Cls({NL}), 3, Unbounded, TRUE), text, <<NL, NL>>)
             ls == Split(a, NL)
             b == Join([k \in 1..Len(ls) |-> TrimRight(ls[k])], <<NL>>)
             c == Replace(Rep(Cls({SP}), 2, Unbounded, TRUE), b, <<SP>>)
         IN  Trim(c)

HeadingTags == {"h1", "h2", "h3", "h4", "h5", "h6"}
HeadingLevel(tag) ==
    CASE tag = "h1" -> 1 [] tag = "h2" -> 2 [] tag = "h3" -> 3
      [] tag = "h4" -> 4 [] tag = "h5" -> 5 [] tag = "h6" -> 6

\* blockTags of hasBlockChildren
blockTags ==
    {"p", "div", "section", "article", "ul", "ol", "table", "pre", "blockquote"}
    \cup HeadingTags

\* a test that finds no block child anywhere
hasBlockChildrenNever(n) == FALSE

\* hasBlockChildren(el): el.children holds elements only
hasBlockChildren(n) ==
    \E k \in 1..Len(n.kids) : IsElement(n.kids[k]) /\ n.kids[k].tag \in blockTags

\* getBreadcrumb(el): the heading ancestors of the element, outermost first
getBreadcrumb(body, path) ==
    LET ups == [k \in 1..Len(path) |-> NodeAt(body, SubSeq(path, 1, k - 1))]
        hs == SelectSeq(ups, LAMBDA u : u.tag \in HeadingTags
                                        /\ cleanInline(textContent(u)) # <<>>)
    IN  [k \in 1..Len(hs) |->
            [level |-> HeadingLevel(hs[k].tag), text |-> cleanInline(textContent(hs[k]))]]

RECURSIVE AllFrom(_, _)
\* every node of the subtree at path, in document order
AllFrom(body, path) ==
    <<path>> \o Flatten([k \in 1..Len(NodeAt(body, path).kids) |->
                            AllFrom(body, Append(path, k))])

\* the descendants of the node at path, in document order (what
\* querySelectorAll ranges over)
TreeWalkAll(body, path) == Tail(AllFrom(body, path))

\* el.querySelector('code') || el: the first code element below, in
\* document order
FirstCode(body, path) ==
    LET below == SelectSeq(TreeWalkAll(body, path), LAMBDA q : NodeAt(body, q).tag = "code")
    IN  IF below = <<>> THEN path ELSE below[1]

\* the chunks one element visited by the loop pushes: none or one; origin
\* is the element the chunk comes from
ChunksOf(body, path) ==
    LET n == NodeAt(body, path)
        At(c) == <<[origin |-> path] @@ c>>
    IN  CASE ~IsElement(n) -> <<>>
          [] n.tag \in HeadingTags ->
                At([breadcrumb |-> getBreadcrumb(body, path)]
                   @@ Heading(HeadingLevel(n.tag), cleanInline(textContent(n))))
          [] n.tag = "pre" ->
                LET codeText == TrimRight(textContent(NodeAt(body, FirstCode(body, path))))
                IN  IF Trim(codeText) # <<>> THEN At(Code(<<>>, codeText)) ELSE <<>>
          [] n.tag = "blockquote" ->
                LET text == cleanInline(innerText(n))
                IN  IF text # <<>> THEN At(Blockquote(text)) ELSE <<>>
          [] n.tag \in {"ul", "ol"} ->
                LET lis == SelectSeq(n.kids, LAMBDA k : k.tag = "li")
                    items == SelectSeq([k \in 1..Len(lis) |-> Trim(cleanInline(innerText(lis[k])))],
                                       LAMBDA t : t # <<>>)
                IN  IF items # <<>> THEN At(List(n.tag = "ol", items)) ELSE <<>>
          [] n.tag \in {"p", "div", "section", "article"} ->
                IF hasBlockChildren(n) THEN <<>>
                ELSE LET text == Trim(cleanInline(innerText(n)))
                     IN  IF text # <<>> THEN At(Paragraph(text)) ELSE <<>>
          [] OTHER -> <<>>

\* chunkDomToSemanticBlocks(root) on the DOM: the loop over walker.nextNode()
ChunkDom(body, root) ==
    LET visited == TreeWalk(body, root)
    IN  Flatten([k \in 1..Len(visited) |-> ChunksOf(body, visited[k])])

\* ------------------------------------------ enhanced-content-extractor.js

\* Scores are fractions of ScoreOne; Pct(x) is x hundredths.  Every product
\* and quotient below is exact for elements of at most six sentences.
ScoreUnit == 80000
Pct(x) == x * ScoreUnit
ScoreOne == Pct(100)

MinOf(a, b) == IF a < b THEN a ELSE b
MaxOf(a, b) == IF a > b THEN a ELSE b
Abs(x) == IF x < 0 THEN 0 - x ELSE x

\* window.innerWidth and window.innerHeight
innerWidth == 1000
innerHeight == 800

\* SemanticAnalyzer: semanticElements, landmarkRoles, articleTypes
SemanticElementWeight(tag) ==
    CASE tag = "article" -> Pct(90)
      [] tag = "main" -> Pct(95)
      [] tag = "section" -> Pct(60)
      [] OTHER -> 0

LandmarkRoleWeight(role) ==
    CASE role = "main" -> Pct(95)
      [] role = "article" -> Pct(80)
      [] role = "region" -> Pct(60)
      [] OTHER -> 0

ArticleTypeWeight(typeName) ==
    CASE typeName = "Article" -> Pct(80)
      [] typeName = "NewsArticle" -> Pct(90)
      [] typeName = "BlogPosting" -> Pct(85)
      [] OTHER -> 0

\* the class names of the model that /article|content|post|entry|story/ matches
ContentClassNames == {"content", "post-content", "article-body", "story"}
\* the class names and ids of the model that one of noisePatterns.classNames
\* matches
NoiseClassNames == {"related", "sidebar", "share", "nav-menu", "promo"}
\* the class names of the content selectors of the fallback
SelectorClassNames == {"content", "post-content", "article-content", "entry-content", "main-content"}

\* SemanticAnalyzer.analyzeElement: semanticScore and confidence
analyzeElement(el) ==
    LET tagW == SemanticElementWeight(el.tag)
        roleW == LandmarkRoleWeight(el.role)
        typeW == ArticleTypeWeight(el.itemtype)
        classHit == el.classes \cap ContentClassNames # {}
    IN  [semanticScore |->
            MinOf(tagW + roleW + typeW + (IF classHit THEN Pct(50) ELSE 0), ScoreOne),
         confidence |->
            MinOf(Pct(50) + (IF tagW > 0 THEN Pct(20) ELSE 0)
                          + (IF roleW > 0 THEN Pct(15) ELSE 0)
                          + (IF typeW > 0 THEN Pct(10) ELSE 0)
                          + (IF classHit THEN Pct(10) ELSE 0), ScoreOne)]

\* NoiseDetector.calculateNoiseScore
calculateNoiseScore(el) ==
    MinOf((IF el.tag \in {"nav", "aside", "footer", "header"} THEN Pct(80) ELSE 0)
          + (IF el.classes \cap NoiseClassNames # {} THEN Pct(60) ELSE 0)
          + (IF el.noiseText THEN Pct(70) ELSE 0)
          + (IF el.textLength > 0 /\ el.links * 200 > el.textLength THEN Pct(30) ELSE 0),
          ScoreOne)

\* ContentScorer.calculateTextQuality
calculateTextQuality(el) ==
    IF el.sentences = 0 THEN 0
    ELSE MinOf(
           (IF 15 * el.sentences <= el.words /\ el.words <= 25 * el.sentences THEN Pct(30)
            ELSE IF 10 * el.sentences <= el.words /\ el.words <= 35 * el.sentences THEN Pct(20)
            ELSE 0)
           + (IF el.paragraphs >= 3 THEN Pct(20) ELSE 0)
           + (el.properSentences * Pct(30)) \div el.sentences
           + (IF el.textLength > 500 THEN Pct(20) ELSE 0),
           ScoreOne)

\* ContentScorer.calculateContentDensity
calculateContentDensity(el) ==
    IF el.textLength = 0 \/ el.htmlLength = 0 THEN 0
    ELSE LET m == MaxOf(el.childElements, 1)
         IN  MinOf(
               (IF 10 * el.textLength >= 3 * el.htmlLength THEN Pct(40)
                ELSE IF 10 * el.textLength >= 2 * el.htmlLength THEN Pct(30)
                ELSE IF 10 * el.textLength >= el.htmlLength THEN Pct(20)
                ELSE 0)
               + (IF el.textLength >= 50 * m THEN Pct(30)
                  ELSE IF el.textLength >= 25 * m THEN Pct(20)
                  ELSE 0)
               + (IF 10 * el.links <= m THEN Pct(20)
                  ELSE IF 10 * el.links <= 2 * m THEN Pct(10)
                  ELSE 0)
               + (IF 10 * el.paragraphs >= 3 * m THEN Pct(10) ELSE 0),
               ScoreOne)

\* ContentScorer.calculateArticleStructure
calculateArticleStructure(el) ==
    MinOf((IF el.hasHeadline THEN Pct(30) ELSE 0)
          + (IF el.hasSubheadings THEN Pct(20) ELSE 0)
          + (IF el.hasAuthor THEN Pct(15) ELSE 0)
          + (IF el.hasDate THEN Pct(15) ELSE 0)
          + (IF el.paragraphs >= 3 THEN Pct(20) ELSE 0),
          ScoreOne)

\* ContentScorer.calculatePositionScore
calculatePositionScore(el) ==
    LET centerDistance2 == Abs(2 * el.left + el.width - innerWidth)
    IN  MinOf(
          (IF 5 * centerDistance2 < 2 * innerWidth THEN Pct(40)
           ELSE IF 5 * centerDistance2 < 3 * innerWidth THEN Pct(30)
           ELSE 0)
          + (IF 10 * el.width >= 4 * innerWidth /\ 10 * el.width <= 8 * innerWidth THEN Pct(40)
             ELSE IF 10 * el.width >= 3 * innerWidth /\ 10 * el.width <= 9 * innerWidth THEN Pct(30)
             ELSE 0)
          + (IF el.height > 200 /\ el.height < innerHeight * 3 THEN Pct(20) ELSE 0),
          ScoreOne)

\* ContentScorer.calculateMetadataScore
calculateMetadataScore(el) ==
    MinOf((IF el.hasAuthor THEN Pct(20) ELSE 0)
          + (IF el.hasDate THEN Pct(20) ELSE 0)
          + (IF el.images > 0 THEN Pct(20) ELSE 0)
          + (IF el.hasQuote THEN Pct(10) ELSE 0)
          + (IF el.hasLists THEN Pct(10) ELSE 0)
          + (IF el.hasTags THEN Pct(10) ELSE 0)
          + (IF el.hasShare THEN Pct(10) ELSE 0),
          ScoreOne)

\* ContentScorer.calculateAllScores
calculateAllScores(el) ==
    [textQuality |-> calculateTextQuality(el),
     contentDensity |-> calculateContentDensity(el),
     articleStructure |-> calculateArticleStructure(el),
     positionScore |-> calculatePositionScore(el),
     metadataScore |-> calculateMetadataScore(el)]

\* weights that favour the text over the markup
weightsSkewed ==
    [textQuality |-> 35, contentDensity |-> 20, articleStructure |-> 20,
     semanticScore |-> 5, positionScore |-> 10, metadataScore |-> 10]

\* ContentScorer.weights, in hundredths
weights ==
    [textQuality |-> 25, contentDensity |-> 20, articleStructure |-> 20,
     semanticScore |-> 15, positionScore |-> 10, metadataScore |-> 10]

\* the sum the loop over Object.entries(scores) builds, plus the semantic
\* term; an absent semanticScore counts as 0
WeightedSum(scores, semanticScore) ==
    (scores.textQuality * weights.textQuality
     + scores.contentDensity * weights.contentDensity
     + scores.articleStructure * weights.articleStructure
     + scores.positionScore * weights.positionScore
     + scores.metadataScore * weights.metadataScore
     + semanticScore * weights.semanticScore) \div 100

\* a penalty with the sign reversed: totalScore *= (1 + noiseScore * 0.5)
ApplyNoiseBonus(totalScore, noiseScore) ==
    (totalScore * (200 + noiseScore \div ScoreUnit)) \div 200

\* totalScore *= (1 - noiseScore * 0.5)
ApplyNoisePenalty(totalScore, noiseScore) ==
    (totalScore * (200 - noiseScore \div ScoreUnit)) \div 200

\* Math.max(0, Math.min(1, totalScore))
Clamp01(x) == MaxOf(0, MinOf(ScoreOne, x))

\* ContentScorer.calculateFinalScore(scores, candidate); semanticScore and
\* noiseScore are 0 when the candidate has none
calculateFinalScore(scores, semanticScore, noiseScore) ==
    Clamp01(ApplyNoisePenalty(WeightedSum(scores, semanticScore), noiseScore))

\* Array.prototype.sort by descending key (the sort is stable)
SortDesc(xs, key) ==
    LET Rank(k) == 1 + Cardinality({j \in 1..Len(xs) :
                        \/ xs[j][key] > xs[k][key]
                        \/ xs[j][key] = xs[k][key] /\ j < k})
    IN  [n \in 1..Len(xs) |-> xs[CHOOSE k \in 1..Len(xs) : Rank(k) = n]]

\* a configuration key that may be missing from the object passed in
Absent == [present |-> FALSE]
Given(v) == [present |-> TRUE, v |-> v]

\* one threshold for every mode
getDefaultMinScoreFlat(mode) == Pct(60)

\* getDefaultMinScore(mode): defaults[mode] || 0.6
getDefaultMinScore(mode) ==
    CASE mode = Given("strict") -> Pct(80)
      [] mode = Given("balanced") -> Pct(60)
      [] mode = Given("comprehensive") -> Pct(40)
      [] OTHER -> Pct(60)

\* getDefaultNoiseThreshold(mode): defaults[mode] || 0.5
getDefaultNoiseThreshold(mode) ==
    CASE mode = Given("strict") -> Pct(30)
      [] mode = Given("balanced") -> Pct(50)
      [] mode = Given("comprehensive") -> Pct(70)
      [] OTHER -> Pct(50)

\* key: config.key || fallback, then overwritten by ...config when the key
\* is present
ConfigValue(key, fallback) ==
    IF key.present THEN key.v ELSE fallback

\* the constructor of EnhancedContentExtractor: this.config
Constructor(config) ==
    [mode |-> ConfigValue(config.mode, "balanced"),
     enableNoiseFiltering |-> config.enableNoiseFiltering,
     minContentScore |-> ConfigValue(config.minContentScore, getDefaultMinScore(config.mode)),
     noiseThreshold |-> ConfigValue(config.noiseThreshold, getDefaultNoiseThreshold(config.mode))]

\* isHidden or isNonContentElement
Rejected(el) ==
    el.hidden \/ el.tag \in {"script", "style", "noscript", "template", "meta", "link"}

\* preprocessDOM: the elements the walker accepts, in document order, each
\* with its position in the document
preprocessDOM(doc) ==
    SelectSeq([k \in 1..Len(doc) |-> [element |-> k, el |-> doc[k]]],
              LAMBDA c : ~Rejected(c.el))

\* (element.className || '').toLowerCase() throws for an element whose
\* className is not a string (an SVG element)
ClassNameThrows(el) == el.svgClass

\* SemanticAnalyzer.findCandidates
findCandidates(elements) ==
    LET analysed == [k \in 1..Len(elements) |->
                        [element |-> elements[k].element, el |-> elements[k].el,
                         semanticScore |-> analyzeElement(elements[k].el).semanticScore,
                         confidence |-> analyzeElement(elements[k].el).confidence,
                         noiseScore |-> 0]]
    IN  SortDesc(SelectSeq(analysed, LAMBDA c : c.semanticScore > Pct(30)),
                 "semanticScore")

\* NoiseDetector.filterCandidates
filterCandidates(candidates, threshold) ==
    SelectSeq([k \in 1..Len(candidates) |->
                  [candidates[k] EXCEPT !.noiseScore = calculateNoiseScore(candidates[k].el)]],
              LAMBDA c : ~(c.noiseScore > threshold))

\* ContentScorer.scoreCandidates
scoreCandidates(candidates) ==
    LET Scored(c) ==
            LET scores == calculateAllScores(c.el)
                finalScore == calculateFinalScore(scores, c.semanticScore, c.noiseScore)
            IN  [element |-> c.element, el |-> c.el, scores |-> scores,
                 semanticScore |-> c.semanticScore, noiseScore |-> c.noiseScore,
                 finalScore |-> finalScore,
                 confidence |-> MinOf(c.confidence + (finalScore * 3) \div 10, ScoreOne)]
    IN  SortDesc([k \in 1..Len(candidates) |-> Scored(candidates[k])],
                 "finalScore")

\* the content selectors of the fallback, in order
contentSelectors ==
    <<"article", "main", ".content", ".post-content", ".article-content",
      ".entry-content", "#content", ".main-content">>

\* does the element match the selector
Matches(el, selector) ==
    CASE selector \in {"article", "main"} -> el.tag = selector
      [] selector = "#content" -> el.id = "content"
      [] selector = ".content" -> "content" \in el.classes
      [] selector = ".post-content" -> "post-content" \in el.classes
      [] selector = ".article-content" -> "article-content" \in el.classes
      [] selector = ".entry-content" -> "entry-content" \in el.classes
      [] selector = ".main-content" -> "main-content" \in el.classes

NoElement == 0

RECURSIVE FallbackElements(_, _, _, _)
\* the inner loop of findMainContentElementFallback over the elements
\* doc[k..]: best is [element, score]
FallbackElements(doc, selector, k, best) ==
    IF k > Len(doc) THEN best
    ELSE IF Matches(doc[k], selector) /\ ~doc[k].hidden /\ doc[k].textLength > best.score
    THEN FallbackElements(doc, selector, k + 1,
                          [element |-> k, score |-> doc[k].textLength])
    ELSE FallbackElements(doc, selector, k + 1, best)

RECURSIVE FallbackSelectors(_, _, _)
\* the outer loop over the selectors contentSelectors[n..]
FallbackSelectors(doc, n, best) ==
    IF n > Len(contentSelectors) THEN best
    ELSE LET b == FallbackElements(doc, contentSelectors[n], 1, best)
         IN  IF b.score > 1000 THEN b ELSE FallbackSelectors(doc, n + 1, b)

\* findMainContentElementFallback(rootElement): an element or NoElement
findMainContentElementFallback(doc) ==
    FallbackSelectors(doc, 1, [element |-> NoElement, score |-> 0]).element

\* fallbackExtraction(rootElement)
fallbackExtraction(doc) ==
    LET mainElement == findMainContentElementFallback(doc)
    IN  IF mainElement # NoElement
        THEN [success |-> TRUE, content |-> mainElement,
              extractionMethod |-> "fallback", confidence |-> Pct(40),
              extractionScore |-> 0]
        ELSE [success |-> FALSE, content |-> NoElement,
              extractionMethod |-> "failed", confidence |-> 0, extractionScore |-> 0]

\* the candidates of layers 1 to 4, best first
ScoredCandidates(doc, config) ==
    LET elements == preprocessDOM(doc)
        semanticCandidates == findCandidates(elements)
        filteredCandidates ==
            IF config.enableNoiseFiltering
            THEN filterCandidates(semanticCandidates, config.noiseThreshold)
            ELSE semanticCandidates
    IN  scoreCandidates(filteredCandidates)

\* does a layer inside the try block throw: the class name of an accepted
\* element is read by layer 2
PipelineThrows(doc) ==
    \E k \in 1..Len(doc) : ~Rejected(doc[k]) /\ ClassNameThrows(doc[k])

\* EnhancedContentExtractor.extractMainContent(rootElement); extractionScore
\* is the metadata field of that name (0 when the result has none)
EnhancedExtractMainContent(doc, rawConfig) ==
    LET config == Constructor(rawConfig)
    IN  IF PipelineThrows(doc) THEN fallbackExtraction(doc)
        ELSE LET scoredCandidates == ScoredCandidates(doc, config)
             IN  IF scoredCandidates = <<>>
                    \/ scoredCandidates[1].finalScore < config.minContentScore
                 THEN fallbackExtraction(doc)
                 ELSE [success |-> TRUE, content |-> scoredCandidates[1].element,
                       extractionMethod |-> "enhanced",
                       confidence |-> scoredCandidates[1].confidence,
                       extractionScore |-> scoredCandidates[1].finalScore]

\* ------------------------------------------------ checkHeadingHierarchy

RECURSIVE HierarchyLoop(_, _, _)
\* the for loop of checkHeadingHierarchy from heading k on
HierarchyLoop(levels, k, previousLevel) ==
    IF k > Len(levels) THEN TRUE
    ELSE IF levels[k] > previousLevel + 1 THEN FALSE
    ELSE HierarchyLoop(levels, k + 1, levels[k])

\* checkHeadingHierarchy(element), given the levels of the headings
\* element.querySelectorAll('h1, h2, h3, h4, h5, h6') returns
checkHeadingHierarchy(levels) ==
    IF Len(levels) = 0 THEN FALSE ELSE HierarchyLoop(levels, 1, 0)

\* ------------------------------------------------------- state machines

VARIABLES
    page,            \* the document of the tab: url, title, blocks
    selection,       \* the selection in the document
    filterPatterns,  \* chrome.storage.sync 'filterPatterns': Null or a string
    customFilters,   \* window.__customFilters of the page
    now,             \* the clock
    first,           \* the first extraction: its inputs and its markdown
    second,          \* the latest extraction after the first
    markdown,        \* the markdown argument of a filterMarkdown call
    filterArg,       \* the customFilters argument of that call
    filtered,        \* what the call returned and logged
    candidate,       \* a candidate element handed to the scorer
    scored,          \* the scored candidate
    doc,             \* the elements under the root of an enhanced extraction
    rawConfig,       \* the config object given to EnhancedContentExtractor
    result,          \* what the enhanced extractMainContent returned
    dom,             \* the body of a document, as a tree
    root,            \* the path of the element chunkDomToSemanticBlocks is given
    chunks,          \* the chunks it returned
    headings,        \* the levels of the headings of an element, in document order
    hierarchy,       \* what checkHeadingHierarchy returned for it
    sidebarOpenedTabId, \* background.js: the tab the panel is believed open for
    panelOpen,       \* whether the browser shows the side panel
    badge,           \* the badge text of the toolbar action
    events,          \* how many events the background has handled
    article,         \* the element of the best candidate of an enhanced extraction
    laidOut,         \* whether that element is rendered, so that it has a layout
    boundaryDetection, \* config.enableBoundaryDetection
    trimmed,         \* what layers 5 and 6 made of the element
    htmlDocument,    \* the html element of a page, as a tree
    mainEl,          \* what findMainContentElement returned for it
    sweepText,       \* content, inside the fixed passes of filterMarkdown
    sweepPc,         \* where filterMarkdown stands in those passes
    sweepPasses,     \* how many passes of the do-while loop changed content
    command,         \* the last Alt+E command: what it met and what it showed
    clipboard,       \* what the system clipboard holds
    commands,        \* how many Alt+E commands were handled
    sidePanel,       \* the side panel page: closed, loading or listening
    loadTime,        \* the time the panel page needs until its listener is registered
    elapsed,         \* time since sidePanel.open, in tenths of a second
    timer,           \* the setTimeout of the click handler
    extractions,     \* extractions the sidebar ran on TRIGGER_EXTRACTION
    lostMessages,    \* TRIGGER_EXTRACTION messages no listener received
    filterList,      \* filterListElement.value, the textarea of the side panel
    syncStorage,     \* chrome.storage.sync: the value under filterPatterns
    handed,          \* the filter text last passed to the page, and by whom
    initialized,     \* window.__csbParagraphIconsInitialized
    paragraphCounter,
    seen,            \* the WeakSet of elements scanAndObserve has handled
    observed,        \* the targets of the IntersectionObserver
    entries,         \* intersection entries queued for the next onIntersect
    qualifying,      \* the elements of the page findCandidates returns now
    marks,           \* data-csb-paragraph-index: pairs of element and index
    buttons,         \* the number of .csb-paragraph-icons-btn children of each element
    mutated,         \* mutation records wait for the MutationObserver callback
    scanTimer,       \* a scan waits for the next animation frame
    injections       \* how often paragraph-icons.js was injected into the page

vars == <<page, selection, filterPatterns, customFilters, now, first, second,
          markdown, filterArg, filtered, candidate, scored, doc, rawConfig, result,
          dom, root, chunks, headings, hierarchy,
          sidebarOpenedTabId, panelOpen, badge, events,
          article, laidOut, boundaryDetection, trimmed,
          htmlDocument, mainEl, sweepText, sweepPc, sweepPasses,
          command, clipboard, commands,
          sidePanel, loadTime, elapsed, timer, extractions, lostMessages,
          filterList, syncStorage, handed,
          initialized, paragraphCounter, seen, observed, entries, qualifying,
          marks, buttons, mutated, scanTimer, injections>>

renderVars == <<page, selection, filterPatterns, customFilters, now, first, second>>
filterVars == <<markdown, filterArg, filtered>>
scoreVars == <<candidate, scored>>
enhancedVars == <<doc, rawConfig, result>>
chunkVars == <<dom, root, chunks>>
\* the variables of the machines further down
headingVars == <<headings, hierarchy>>
panelVars == <<sidebarOpenedTabId, panelOpen, badge, events>>
trimVars == <<article, laidOut, boundaryDetection, trimmed>>
mainVars == <<htmlDocument, mainEl>>
sweepVars == <<sweepText, sweepPc, sweepPasses>>
copyVars == <<command, clipboard, commands>>
triggerVars == <<sidePanel, loadTime, elapsed, timer, extractions, lostMessages>>
settingsVars == <<filterList, syncStorage, handed>>
iconVars == <<initialized, paragraphCounter, seen, observed, entries, qualifying,
              marks, buttons, mutated, scanTimer, injections>>
tailVars == <<mainVars, sweepVars, copyVars, triggerVars, settingsVars, iconVars>>
laterVars == <<chunkVars, headingVars, panelVars, trimVars, tailVars>>
earlierVars ==
    <<renderVars, filterVars, scoreVars, enhancedVars, chunkVars, headingVars, panelVars,
      trimVars>>

\* a variable of a machine that is not running, a call that has not been made
Idle == [idle |-> TRUE]
NotRun == [done |-> FALSE]

RenderIdle ==
    /\ page = Idle /\ selection = Idle /\ filterPatterns = Idle
    /\ customFilters = Idle /\ now = 0 /\ first = Idle /\ second = Idle
FilterIdle == markdown = Idle /\ filterArg = Idle /\ filtered = Idle
ScoreIdle == candidate = Idle /\ scored = Idle
EnhancedIdle == doc = Idle /\ rawConfig = Idle /\ result = Idle
ChunkIdle == dom = Idle /\ root = Idle /\ chunks = Idle
HeadingIdle == headings = Idle /\ hierarchy = Idle
PanelIdle ==
    sidebarOpenedTabId = Idle /\ panelOpen = Idle /\ badge = Idle /\ events = Idle
TrimIdle ==
    article = Idle /\ laidOut = Idle /\ boundaryDetection = Idle /\ trimmed = Idle
MainIdle == htmlDocument = Idle /\ mainEl = Idle
SweepIdle == sweepText = Idle /\ sweepPc = Idle /\ sweepPasses = Idle
CopyIdle == command = Idle /\ clipboard = Idle /\ commands = Idle
TriggerIdle ==
    /\ sidePanel = Idle /\ loadTime = Idle /\ elapsed = Idle
    /\ timer = Idle /\ extractions = Idle /\ lostMessages = Idle
SettingsIdle == filterList = Idle /\ syncStorage = Idle /\ handed = Idle
IconsIdle ==
    /\ initialized = Idle /\ paragraphCounter = Idle /\ seen = Idle
    /\ observed = Idle /\ entries = Idle /\ qualifying = Idle /\ marks = Idle
    /\ buttons = Idle /\ mutated = Idle /\ scanTimer = Idle /\ injections = Idle
TailIdle == MainIdle /\ SweepIdle /\ CopyIdle /\ TriggerIdle /\ SettingsIdle /\ IconsIdle
LaterIdle == ChunkIdle /\ HeadingIdle /\ PanelIdle /\ TrimIdle /\ TailIdle
EarlierIdle ==
    /\ RenderIdle /\ FilterIdle /\ ScoreIdle /\ EnhancedIdle
    /\ ChunkIdle /\ HeadingIdle /\ PanelIdle /\ TrimIdle

\* the machines further down: all of them idle but the one named, and left
\* as they are by the actions of the one named
TailIdleExcept(g) ==
    /\ (IF g = "main" THEN TRUE ELSE MainIdle)
    /\ (IF g = "sweep" THEN TRUE ELSE SweepIdle)
    /\ (IF g = "copy" THEN TRUE ELSE CopyIdle)
    /\ (IF g = "trigger" THEN TRUE ELSE TriggerIdle)
    /\ (IF g = "settings" THEN TRUE ELSE SettingsIdle)
    /\ (IF g = "icons" THEN TRUE ELSE IconsIdle)
TailKeepExcept(g) ==
    /\ (IF g = "main" THEN TRUE ELSE UNCHANGED mainVars)
    /\ (IF g = "sweep" THEN TRUE ELSE UNCHANGED sweepVars)
    /\ (IF g = "copy" THEN TRUE ELSE UNCHANGED copyVars)
    /\ (IF g = "trigger" THEN TRUE ELSE UNCHANGED triggerVars)
    /\ (IF g = "settings" THEN TRUE ELSE UNCHANGED settingsVars)
    /\ (IF g = "icons" THEN TRUE ELSE UNCHANGED iconVars)

\* the blocks the documents of the model are made of
Intro == Paragraph(<<"Intro">>)
Outro == Paragraph(<<"Outro">>)
RelatedArticles == Heading(2, <<"Related", SP, "Articles">>)
NextRealSection == Heading(2, <<"Next", SP, "Real", SP, "Section">>)
Body == Paragraph(<<"Body">>)
ArticleA(level) == Heading(level, <<"Article", SP, "A">>)
LinkList(n) == List(FALSE, [k \in 1..n |-> <<"[x](y)">>])
SeeComments == Paragraph(<<"See", SP, "the", SP, "Comments", SP, "below">>)
CopyrightNotice == Paragraph(<<"Copyright", SP, "Example", SP, "Media">>)

\* ------------------------------------- extraction from the side panel

\* bounds of the extraction machine
MaxClock == 1
MaxItems == 2

Hello == Paragraph(<<"Hello", SP, "world">>)
Steps(n) == List(TRUE, [k \in 1..n |-> <<"Step">>])

\* the block lists of the documents
RenderBlocks ==
    {<<>>, <<Hello>>,
     <<Heading(2, <<"Setup">>), Code(<<"js">>, <<"x">>), Blockquote(<<"q1", NL, "q2">>)>>,
     <<Intro, RelatedArticles, ArticleA(3), NextRealSection, Body>>}
    \cup {<<Heading(1, <<"Title">>), Hello, Steps(n)>> : n \in 1..MaxItems}

RenderPages ==
    {[url |-> <<"https://a.example/post">>, title |-> <<"Post">>, blocks |-> bl] :
        bl \in RenderBlocks}
    \cup {[url |-> <<"https://a.example/">>, title |-> <<>>, blocks |-> <<Hello>>]}

\* no selection, a selection inside one block, a selection across blocks
Selections ==
    {[kind |-> "none", text |-> <<>>],
     [kind |-> "inBlock", text |-> <<"Hello">>],
     [kind |-> "across", text |-> <<"Hello", SP, "world", NL, NL, "Step">>]}

\* what the user may have typed in the filter list of the side panel
FilterInputs == {<<>>, <<SP, NL>>, <<SP, "Hello", NL>>}

InitRender ==
    /\ page \in RenderPages
    /\ selection \in Selections
    /\ filterPatterns = Null
    /\ customFilters = Null
    /\ now = 0
    /\ first = NotRun
    /\ second = NotRun
    /\ FilterIdle /\ ScoreIdle /\ EnhancedIdle /\ LaterIdle

\* time passes
Tick ==
    /\ now < MaxClock
    /\ now' = now + 1
    /\ UNCHANGED <<page, selection, filterPatterns, customFilters, first, second,
                   filterVars, scoreVars, enhancedVars, laterVars>>

\* saveFilters of sidebar.js: the trimmed text, the defaults when it is empty
SaveFilters(input) ==
    /\ filterPatterns' = Str(IF Trim(input) = <<>> THEN DEFAULT_FILTERS ELSE Trim(input))
    /\ UNCHANGED <<page, selection, customFilters, now, first, second,
                   filterVars, scoreVars, enhancedVars, laterVars>>

\* extractPageContent of sidebar.js (and the Alt+E command of background.js):
\* patterns = filterPatterns || DEFAULT_FILTERS; in the page,
\* window.__customFilters = patterns, then extractMainContent()
ExtractPageContent ==
    /\ ~second.done
    /\ LET patterns == IF Truthy(filterPatterns) THEN filterPatterns
                       ELSE Str(DEFAULT_FILTERS)
           run == [done |-> TRUE, filters |-> patterns, now |-> now,
                   markdown |-> extractMainContent(page, selection,
                                    IF Truthy(patterns) THEN patterns ELSE Null, now)]
       IN  /\ customFilters' = patterns
           /\ IF first.done THEN second' = run /\ first' = first
              ELSE first' = run /\ second' = second
    /\ UNCHANGED <<page, selection, filterPatterns, now,
                   filterVars, scoreVars, enhancedVars, laterVars>>

NextRender ==
    \/ Tick
    \/ \E input \in FilterInputs : SaveFilters(input)
    \/ ExtractPageContent

SpecRender == InitRender /\ [][NextRender]_vars

\* the lines of a text
Lines(s) == Split(s, NL)

\* the extractions made so far
Runs == {r \in {first, second} : r.done}

\* the names a header may carry, in order
HeaderShapes ==
    {<<"url", "title", "timestamp">>,
     <<"url", "title", "timestamp", "selection_excerpt">>,
     <<"url", "title", "timestamp", "breadcrumbs">>,
     <<"url", "title", "timestamp", "selection_excerpt", "breadcrumbs">>}

\* line c of ls closes a header block that opens at line 1
ClosesHeader(ls, c) ==
    /\ ls[1] = <<DASH, DASH, DASH>>
    /\ ls[c] = <<DASH, DASH, DASH>>
    /\ \A k \in 2..(c - 1) : Len(ls[k]) >= 3 /\ ls[k][2] = COLON /\ ls[k][3] = SP
    /\ [k \in 1..(c - 2) |-> ls[k + 1][1]] \in HeaderShapes

\* C2: every rendered document starts with the header block: its first and
\* its last line are exactly ---, between them come url:, title:,
\* timestamp: (then selection_excerpt: and breadcrumbs: when present), one
\* per line in that order, and the body begins on a new line after the
\* closing ---.
C2_HeaderBlock ==
    \A r \in Runs : \E c \in 2..Len(Lines(r.markdown)) : ClosesHeader(Lines(r.markdown), c)

\* a text without its timestamp: line
WithoutTimestamp(s) ==
    SelectSeq(Lines(s), LAMBDA l : ~(Len(l) >= 2 /\ l[1] = "timestamp" /\ l[2] = COLON))

\* two extractions of the unchanged document under the same filter rules
SameInputs == first.done /\ second.done /\ first.filters = second.filters

\* C3 as stated: two extractions of an unchanged document (same DOM, same
\* selection, same filter rules) yield byte-identical output, whatever
\* happened between them.
C3_ByteIdentical == SameInputs => first.markdown = second.markdown

\* C3, amended: two extractions of an unchanged document under the same
\* filter rules yield the same output except for the timestamp: line of the
\* header, and byte-identical output when both read the same clock value.
C3_IdenticalButTimestamp ==
    SameInputs =>
        /\ WithoutTimestamp(first.markdown) = WithoutTimestamp(second.markdown)
        /\ (first.now = second.now => first.markdown = second.markdown)

\* two extractions under the same rules, the clock having moved and the
\* rules having been changed and restored between them
C3_Witness ==
    /\ SameInputs
    /\ first.now # second.now
    /\ first.markdown # second.markdown
    /\ filterPatterns # Null

\* ---------------------------------------- the filter, called on its own

\* bounds of the documents given to the filter
MaxLinks == 3
MaxNested == 1


\* the blocks under a section heading: nested headings of level 3 and up,
\* then a list of links
Nested(h, n) ==
    [k \in 1..h |-> ArticleA(2 + k)] \o (IF n > 0 THEN <<LinkList(n)>> ELSE <<>>)

\* what follows the section
Tails ==
    {<<>>, <<Outro>>, <<NextRealSection, Body>>, <<NextRealSection, Body, Outro>>,
     <<NextRealSection, SeeComments>>, <<Outro, CopyrightNotice>>}

\* the headings that open the section
SectionHeadings == {RelatedArticles, Heading(2, <<"Most", SP, "popular", SP, "picks">>)}

\* the chunk lists of the documents
FilterDocs ==
    {<<Intro, sh>> \o Nested(h, n) \o t :
        sh \in SectionHeadings, h \in 0..MaxNested, n \in 0..MaxLinks, t \in Tails}

\* a rule set whose first rule does not compile
MalformedRules == <<"(", "Sponsored", NL, "Related", SP, "Articles", NL, "Outro">>

\* the filter strings: absent, empty, whitespace only, the default filter
\* text of the callers, a custom rule set with a malformed rule
FilterArgs ==
    {Null, Str(<<>>), Str(<<SP, NL, SP>>), Str(DEFAULT_FILTERS), Str(MalformedRules)}

InitFilter ==
    /\ markdown \in {RenderBody(d) : d \in FilterDocs}
    /\ filterArg \in FilterArgs
    /\ filtered = NotRun
    /\ RenderIdle /\ ScoreIdle /\ EnhancedIdle /\ LaterIdle

\* a call of window.ContentExtractor.filterMarkdown(markdown, customFilters)
FilterMarkdown ==
    /\ ~filtered.done
    /\ filtered' = [done |-> TRUE] @@ FilterRun(markdown, filterArg)
    /\ UNCHANGED <<markdown, filterArg, renderVars, scoreVars, enhancedVars, laterVars>>

NextFilter == FilterMarkdown

SpecFilter == InitFilter /\ [][NextFilter]_vars

\* ------------------------------------------- the scorer, called on its own

\* an element with no attribute, no text and no box
BaseElement ==
    [tag |-> "div", role |-> "", itemtype |-> "", id |-> "", classes |-> {},
     hidden |-> FALSE, svgClass |-> FALSE, noiseText |-> FALSE,
     textLength |-> 0, htmlLength |-> 0, childElements |-> 0, links |-> 0,
     sentences |-> 0, words |-> 0, properSentences |-> 0, paragraphs |-> 0,
     hasHeadline |-> FALSE, hasSubheadings |-> FALSE, hasAuthor |-> FALSE,
     hasDate |-> FALSE, images |-> 0, hasQuote |-> FALSE, hasLists |-> FALSE,
     hasTags |-> FALSE, hasShare |-> FALSE,
     left |-> 0, width |-> 0, height |-> 0]

\* tag, role, type and classes
ArticleTag == [tag |-> "article"]
MainLandmark == [tag |-> "main", role |-> "main"]
SectionTag == [tag |-> "section"]
PostContentDiv == [tag |-> "div", classes |-> {"post-content"}]
PlainDiv == [tag |-> "div"]
RelatedAside == [tag |-> "aside", classes |-> {"related"}]
SidebarSection == [tag |-> "section", classes |-> {"sidebar"}]
SharedStory == [tag |-> "div", itemtype |-> "NewsArticle", classes |-> {"story", "share"}]

MarkupProfiles ==
    {ArticleTag, MainLandmark, SectionTag, PostContentDiv, PlainDiv,
     RelatedAside, SidebarSection, SharedStory}

\* the text of the element and the elements inside it
NoText == [textLength |-> 0]
ShortText ==
    [textLength |-> 120, htmlLength |-> 400, childElements |-> 4, links |-> 1,
     sentences |-> 2, words |-> 16, properSentences |-> 1, paragraphs |-> 1]
ArticleText ==
    [textLength |-> 2400, htmlLength |-> 6000, childElements |-> 12, links |-> 1,
     sentences |-> 6, words |-> 120, properSentences |-> 6, paragraphs |-> 5]
LinkyText ==
    [textLength |-> 600, htmlLength |-> 6000, childElements |-> 30, links |-> 10,
     sentences |-> 5, words |-> 60, properSentences |-> 2, paragraphs |-> 3,
     noiseText |-> TRUE]

TextProfiles == {NoText, ShortText, ArticleText, LinkyText}

\* what the element contains besides text
Bare == [images |-> 0]
Byline ==
    [hasHeadline |-> TRUE, hasSubheadings |-> TRUE, hasAuthor |-> TRUE, hasDate |-> TRUE]
Media ==
    [hasHeadline |-> TRUE, images |-> 2, hasQuote |-> TRUE, hasLists |-> TRUE,
     hasTags |-> TRUE, hasShare |-> TRUE]

ContentProfiles == {Bare, Byline, Media}

\* the box of the element: centred, in a side column, across the window,
\* not displayed
Centred == [left |-> 200, width |-> 600, height |-> 1200]
SideColumn == [left |-> 800, width |-> 200, height |-> 600]
FullWidth == [left |-> 0, width |-> 1000, height |-> 3000]
NotDisplayed == [hidden |-> TRUE]

BoxProfiles == {Centred, SideColumn, FullWidth, NotDisplayed}

Element(m, t, c, b) == m @@ t @@ c @@ b @@ BaseElement

Elements ==
    {Element(m, t, c, b) :
        m \in MarkupProfiles, t \in TextProfiles, c \in ContentProfiles, b \in BoxProfiles}

InitScore ==
    /\ candidate \in {[el |-> e, noiseFiltering |-> f] : e \in Elements, f \in BOOLEAN}
    /\ scored = NotRun
    /\ RenderIdle /\ FilterIdle /\ EnhancedIdle /\ LaterIdle

\* layers 2 to 4 on one element: the candidate as findCandidates builds it,
\* its noise score when noise filtering is on, then scoreCandidates
ScoreCandidate ==
    /\ ~scored.done
    /\ LET a == analyzeElement(candidate.el)
           c == [element |-> 1, el |-> candidate.el,
                 semanticScore |-> a.semanticScore, confidence |-> a.confidence,
                 noiseScore |-> IF candidate.noiseFiltering
                                THEN calculateNoiseScore(candidate.el) ELSE 0]
       IN  scored' = [done |-> TRUE] @@ scoreCandidates(<<c>>)[1]
    /\ UNCHANGED <<candidate, renderVars, filterVars, enhancedVars, laterVars>>

NextScore == ScoreCandidate

SpecScore == InitScore /\ [][NextScore]_vars

\* ------------------------------------- the extractor on a whole document

MaxElements == 2

\* an inline SVG icon: its className is an SVGAnimatedString
SvgIcon == [tag |-> "svg", svgClass |-> TRUE] @@ BaseElement

DocElements ==
    {Element(ArticleTag, ArticleText, Byline, Centred),
     Element(SectionTag, ArticleText, Byline, SideColumn),
     Element(ArticleTag, ArticleText, Bare, Centred),
     Element(MainLandmark, ShortText, Byline, Centred),
     Element(SectionTag, LinkyText, Bare, Centred),
     Element(ArticleTag, ShortText, Bare, Centred),
     Element(ArticleTag, ArticleText, Byline, NotDisplayed),
     Element(PlainDiv, ArticleText, Bare, Centred),
     Element(RelatedAside, LinkyText, Bare, SideColumn),
     Element(SidebarSection, ArticleText, Media, SideColumn),
     SvgIcon}

\* the elements under the root, in document order
Docs == UNION {[1..n -> DocElements] : n \in 0..MaxElements}

Modes == {Absent, Given("strict"), Given("balanced"), Given("comprehensive"), Given("reader")}

Configs ==
    {[mode |-> m, minContentScore |-> s, noiseThreshold |-> Absent,
      enableNoiseFiltering |-> f] :
        m \in Modes, s \in {Absent, Given(Pct(50))}, f \in BOOLEAN}

InitEnhanced ==
    /\ doc \in Docs
    /\ rawConfig \in Configs
    /\ result = NotRun
    /\ RenderIdle /\ FilterIdle /\ ScoreIdle /\ LaterIdle

\* new EnhancedContentExtractor(rawConfig).extractMainContent(root)
ExtractMainContent ==
    /\ ~result.done
    /\ result' = [done |-> TRUE] @@ EnhancedExtractMainContent(doc, rawConfig)
    /\ UNCHANGED <<doc, rawConfig, renderVars, filterVars, scoreVars, laterVars>>

NextEnhanced == ExtractMainContent

SpecEnhanced == InitEnhanced /\ [][NextEnhanced]_vars

\* does the text w occur in s
Contains(s, w) == \E i \in 1..(Len(s) - Len(w) + 1) : SubSeq(s, i, i + Len(w) - 1) = w

\* is the text l one of the lines of s
HasLine(s, l) == \E k \in 1..Len(Split(s, NL)) : Split(s, NL)[k] = l

\* the default rules: no filter string, an empty one, or the default filter
\* text the sidebar and the Alt+E command pass when nothing is stored
DefaultRules == {Null, Str(<<>>), Str(DEFAULT_FILTERS)}

\* C4: when the filter string passed to filterMarkdown is empty or consists
\* only of whitespace, the built-in default keyword list is applied: the
\* result is the one the built-in defaults give, never the result of an
\* empty rule set.
C4_DefaultFilterFallback ==
    (filtered.done /\ ~filterArg.null /\ Trim(filterArg.s) = <<>>)
        => filtered.content = filterMarkdown(markdown, Null)

\* the documents of C5: a removable ## section, nested ### / #### blocks
\* beneath it, then the next ## heading and its content
NestedSectionDocs ==
    {RenderBody(<<Intro, RelatedArticles>> \o Nested(h, n) \o <<NextRealSection, Body>> \o t) :
        h \in 1..MaxNested, n \in 0..MaxLinks, t \in {<<>>, <<Outro>>}}

\* C5: filtering a document with a removable ## section followed by nested
\* ### / #### blocks and then another ## heading removes the ## heading
\* together with every nested block beneath it and leaves the next ##
\* heading and its content intact.
C5_NestedSectionRemoved ==
    (filtered.done /\ filterArg \in DefaultRules /\ markdown \in NestedSectionDocs)
        => /\ ~Contains(filtered.content, <<HASH, HASH, SP>> \o RelatedArticles.text)
           /\ ~Contains(filtered.content, <<HASH, HASH, SP, NL>>)
           /\ ~Contains(filtered.content, ArticleA(3).text)
           /\ Contains(filtered.content,
                       <<NL, NL, HASH, HASH, SP>> \o NextRealSection.text
                           \o <<NL, NL>> \o Body.text \o <<NL>>)

\* the documents of C6: a paragraph, the heading Related Articles, a list of
\* links, then the following paragraphs
LinkListDocs ==
    {RenderBody(<<Intro, RelatedArticles, LinkList(n)>> \o t) :
        n \in 1..MaxLinks, t \in Tails}

\* the paragraphs of a document that the block does not contain
OuterParagraphs == {Intro.text, Outro.text, Body.text, SeeComments.text}

\* C6: after filtering markdown that contains the heading Related Articles
\* followed by a list of links, the output does not contain "Related
\* Articles", and every paragraph before and after that block is still
\* present unchanged.
C6_FilteringIsLocal ==
    (filtered.done /\ filterArg \in DefaultRules /\ markdown \in LinkListDocs)
        => /\ ~Contains(filtered.content, RelatedArticles.text)
           /\ \A para \in OuterParagraphs :
                  HasLine(markdown, para) => HasLine(filtered.content, para)

\* the rules of a filter string that do not compile, and the filter string
\* made of the others
MalformedLines(f) == SelectSeq(CustomLines(f), RegExpThrows)
WithoutMalformed(f) ==
    Str(Join(SelectSeq(CustomLines(f), LAMBDA l : ~RegExpThrows(l)), <<NL>>))

\* C7: one malformed rule never aborts filtering.  For a rule set in which
\* some rule does not compile, exactly the malformed rules are skipped with a
\* warning, and the output is the output of the rule set without them: every
\* other rule, the fixed passes and the final normalization are applied.
C7_MalformedRuleSkipped ==
    (filtered.done /\ Truthy(filterArg) /\ MalformedLines(filterArg) # <<>>)
        => /\ filtered.warned = MalformedLines(filterArg)
           /\ Truthy(WithoutMalformed(filterArg))
           /\ filtered.content = filterMarkdown(markdown, WithoutMalformed(filterArg))
           /\ ~Contains(filtered.content, <<NL, NL, NL>>)
           /\ filtered.content = Trim(filtered.content) \o <<NL>>

\* a call with a malformed first rule after which the later rules took
\* effect: the paragraph named by the last rule is gone
C7_Witness ==
    /\ filtered.done /\ filterArg = Str(MalformedRules)
    /\ filtered.warned = <<<<"(", "Sponsored">>>>
    /\ HasLine(markdown, Outro.text)
    /\ ~Contains(filtered.content, Outro.text)

\* C17: a keyword rule removes only sections that start with the keyword.
\* Each keyword of a custom rule set is taken literally, so no rule fails to
\* compile, and it matches only at the start of a block: a line of prose
\* that has a keyword in its middle, under a heading that no rule names, is
\* still there after filtering.
C17_KeywordAtBlockStartOnly ==
    (filtered.done /\ Truthy(filterArg)) =>
        /\ filtered.warned = <<>>
        /\ HasLine(markdown, SeeComments.text) => HasLine(filtered.content, SeeComments.text)

\* three link-list lines in a row
LinkRun == Join([k \in 1..3 |-> <<DASH, SP, "[x](y)">>], <<NL>>)

\* C18: the fixed-pattern passes run for every rule set, custom or default:
\* the output of the filter never contains a run of 3 or more consecutive
\* link-list lines, nor the legal block at the end of the document.
C18_FixedPassesAlways ==
    filtered.done =>
        /\ ~Contains(filtered.content, LinkRun)
        /\ ~Contains(filtered.content, <<"Example", SP, "Media">>)

\* ------------------------------------------------------------- scoring

SubScores ==
    <<scored.scores.textQuality, scored.scores.contentDensity,
      scored.scores.articleStructure, scored.semanticScore,
      scored.scores.positionScore, scored.scores.metadataScore>>

\* C8: the final score of a candidate is 0.25 x text quality + 0.20 x content
\* density + 0.20 x article structure + 0.15 x semantic + 0.10 x position +
\* 0.10 x metadata, every sub-score within [0,1], times (1 - 0.5 x noise),
\* and lies within [0,1].
C8_ScoringFormula ==
    scored.done =>
        /\ \A k \in 1..6 : SubScores[k] >= 0 /\ SubScores[k] <= ScoreOne
        /\ 25 + 20 + 20 + 15 + 10 + 10 = 100
        /\ LET sum == 25 * SubScores[1] + 20 * SubScores[2] + 20 * SubScores[3]
                      + 15 * SubScores[4] + 10 * SubScores[5] + 10 * SubScores[6]
           IN  /\ sum % 100 = 0
               /\ scored.finalScore * 200
                    = (sum \div 100) * (200 - scored.noiseScore \div ScoreUnit)
        /\ scored.finalScore >= 0 /\ scored.finalScore <= ScoreOne

\* a candidate scored with a capped semantic score, a penalty and a final
\* score that is neither 0 nor 1
C8_Witness ==
    /\ scored.done
    /\ scored.semanticScore = ScoreOne
    /\ scored.el.tag = "main" /\ scored.el.role = "main"
    /\ scored.noiseScore > 0
    /\ scored.finalScore > 0 /\ scored.finalScore < ScoreOne

\* noise scores from 0 to 1 by tenths
NoiseLevels == {Pct(10 * k) : k \in 0..10}

\* C9: with the sub-scores of a candidate held fixed, a higher noise score
\* never gives a higher final score, and a weighted sum of 0 gives a final
\* score of 0 whatever the noise.
C9_NoiseMultiplicative ==
    scored.done =>
        LET Final(n) == calculateFinalScore(scored.scores, scored.semanticScore, n)
        IN  /\ scored.finalScore = Final(scored.noiseScore)
            /\ \A n1, n2 \in NoiseLevels : n1 <= n2 => Final(n2) <= Final(n1)
            /\ SubScores = <<0, 0, 0, 0, 0, 0>> =>
                   \A n \in NoiseLevels : Final(n) = 0

\* a candidate whose noise lowered its final score
C9_Witness ==
    /\ scored.done
    /\ scored.noiseScore > 0
    /\ scored.finalScore > 0
    /\ scored.finalScore
         < calculateFinalScore(scored.scores, scored.semanticScore, 0)

\* the score a node gets from the four signals alone: 0.3 for a noise class
\* or id, 0.4 for a lead-in phrase, 0.3 for more than 0.5 links per 100
\* characters, 0.2 for fewer than 100 characters, capped at 1
FourSignals(el) ==
    MinOf((IF el.classes \cap NoiseClassNames # {} THEN Pct(30) ELSE 0)
          + (IF el.noiseText THEN Pct(40) ELSE 0)
          + (IF el.links * 200 > el.textLength THEN Pct(30) ELSE 0)
          + (IF el.textLength < 100 THEN Pct(20) ELSE 0),
          ScoreOne)

\* C25: the noise score of a node is the capped sum of exactly four signals:
\* +0.3 for a class/id of a noise category, +0.4 for a boilerplate lead-in
\* phrase, +0.3 for a link density above 0.5 per 100 characters, +0.2 for a
\* text under 100 characters; nothing else contributes.
C25_FourSignalsOnly ==
    scored.done /\ candidate.noiseFiltering =>
        scored.noiseScore = FourSignals(candidate.el)

\* ---------------------------------------------------- the confidence gate

\* the threshold the configuration asks for
ActiveThreshold ==
    IF rawConfig.minContentScore.present THEN rawConfig.minContentScore.v
    ELSE CASE rawConfig.mode = Given("strict") -> Pct(80)
           [] rawConfig.mode = Given("comprehensive") -> Pct(40)
           [] OTHER -> Pct(60)

\* the scored candidates of the run, best first; none when a layer threw
Winners ==
    IF PipelineThrows(doc) THEN <<>>
    ELSE ScoredCandidates(doc, Constructor(rawConfig))

\* C10: the result is the enhanced one only if the best candidate scores at
\* least the threshold (0.8 strict, 0.6 balanced, absent or unknown mode, 0.4
\* comprehensive, unless minContentScore is given); with no candidate or a
\* best candidate below the threshold the result is the fallback extraction.
C10_ConfidenceGate ==
    result.done =>
        /\ result.extractionMethod = "enhanced" =>
              /\ Winners # <<>>
              /\ Winners[1].finalScore >= ActiveThreshold
              /\ result.content = Winners[1].element
        /\ (Winners = <<>> \/ Winners[1].finalScore < ActiveThreshold) =>
              /\ result.extractionMethod \in {"fallback", "failed"}
              /\ result = [done |-> TRUE] @@ fallbackExtraction(doc)

\* comprehensive mode accepts a winner that balanced mode would refuse
C10_Witness ==
    /\ result.done
    /\ rawConfig.mode = Given("comprehensive")
    /\ ~rawConfig.minContentScore.present
    /\ result.extractionMethod = "enhanced"
    /\ result.extractionScore >= Pct(40) /\ result.extractionScore < Pct(60)

\* ------------------------------------------------------------ failing softly

\* does a displayed element under the root have text
BodyHasText == \E k \in 1..Len(doc) : ~doc[k].hidden /\ doc[k].textLength > 0

Illustrated == [hasSubheadings |-> TRUE, images |-> 1]

\* candidates whose final scores can coincide: a div.post-content with
\* subheadings and an image, a bare article, a section with a byline, a
\* short main landmark
TieElements ==
    {Element(PostContentDiv, ArticleText, Illustrated, Centred),
     Element(ArticleTag, ArticleText, Bare, Centred),
     Element(SectionTag, ArticleText, Byline, Centred),
     Element(MainLandmark, ShortText, Bare, Centred)}

InitWinner ==
    /\ doc \in UNION {[1..n -> TieElements] : n \in 1..MaxElements}
    /\ rawConfig \in Configs
    /\ result = NotRun
    /\ RenderIdle /\ FilterIdle /\ ScoreIdle /\ LaterIdle

NextWinner == ExtractMainContent

SpecWinner == InitWinner /\ [][NextWinner]_vars

\* C19: the selected candidate has the highest finalScore among the scored
\* candidates, and among the candidates with that finalScore it is the one
\* discovered first, whatever their semantic scores.
C19_FirstDiscoveredWinsTies ==
    (result.done /\ result.extractionMethod = "enhanced") =>
        \A k \in 1..Len(Winners) :
            /\ Winners[k].finalScore <= result.extractionScore
            /\ Winners[k].finalScore = result.extractionScore
                   => result.content <= Winners[k].element

\* ------------------------------------------------- chunking a document

MaxBlocks == 2

\* the pieces the documents of the chunking machine are made of
Fragments ==
    {Elem("h1", <<TextNode(<<"Title">>)>>),
     Elem("p", <<TextNode(<<"Para", SP>>), Elem("em", <<TextNode(<<"stressed">>)>>)>>),
     Elem("div", <<Elem("p", <<TextNode(<<"Inner">>)>>), TextNode(<<"loose">>)>>),
     Elem("aside", <<Elem("ul", <<Elem("li", <<TextNode(<<"Trending">>)>>)>>)>>),
     Elem("ul", <<Elem("li", <<TextNode(<<"one">>)>>),
                  Elem("li", <<TextNode(<<"two">>),
                               Elem("ul", <<Elem("li", <<TextNode(<<"sub">>)>>)>>)>>)>>),
     HiddenElem("div", <<Elem("p", <<TextNode(<<"ghost">>)>>)>>),
     Elem("div", <<Elem("span", <<Elem("p", <<TextNode(<<"deep">>)>>)>>)>>),
     Elem("blockquote", <<Elem("p", <<TextNode(<<"quote">>)>>)>>),
     Elem("pre", <<Elem("code", <<TextNode(<<"x", NL>>)>>)>>),
     Elem("nav", <<Elem("p", <<TextNode(<<"Home">>)>>)>>),
     Elem("section", <<Elem("h2", <<TextNode(<<"Part">>)>>),
                       Elem("footer", <<Elem("p", <<TextNode(<<"Legal">>)>>)>>)>>)}

\* a body holding an article of 1..MaxBlocks fragments, with or without a
\* sidebar next to it
Doms ==
    {Elem("body", <<Elem("article", fs)>> \o side) :
        fs \in UNION {[1..n -> Fragments] : n \in 1..MaxBlocks},
        side \in {<<>>,
                  <<Elem("aside", <<Elem("ul", <<Elem("li", <<TextNode(<<"Popular">>)>>)>>)>>)>>}}

\* the paths of the nodes of d
Paths(d) == {AllFrom(d, <<>>)[k] : k \in 1..Len(AllFrom(d, <<>>))}

\* the elements a caller may pass as root: the body, the main element, the
\* container of a selection
Roots(d) == {q \in Paths(d) : Len(q) <= 2 /\ IsElement(NodeAt(d, q))}

InitChunk ==
    /\ dom \in Doms
    /\ root \in Roots(dom)
    /\ chunks = NotRun
    /\ RenderIdle /\ FilterIdle /\ ScoreIdle /\ EnhancedIdle /\ HeadingIdle
    /\ PanelIdle /\ TrimIdle /\ TailIdle

\* chunkDomToSemanticBlocks(root)
ChunkDomToSemanticBlocks ==
    /\ ~chunks.done
    /\ chunks' = [done |-> TRUE, list |-> ChunkDom(dom, root)]
    /\ UNCHANGED <<dom, root, renderVars, filterVars, scoreVars, enhancedVars,
                   headingVars, panelVars, trimVars, tailVars>>

NextChunk == ChunkDomToSemanticBlocks

SpecChunk == InitChunk /\ [][NextChunk]_vars

\* is p a proper prefix of q
ProperPrefix(p, q) == Len(p) < Len(q) /\ SubSeq(q, 1, Len(p)) = p

\* the elements on the way from below at down to the element at q, q included
Below(at, q) == {SubSeq(q, 1, k) : k \in (Len(at) + 1)..Len(q)}

Origins == {chunks.list[k].origin : k \in 1..Len(chunks.list)}

\* C11: chunking emits no chunk whose originating element is, or lies in the
\* subtree of, a script, style, nav, header, footer or aside element or a
\* hidden element below the root; a list inside an aside below the root
\* yields no list chunk.
C11_RejectedSubtrees ==
    chunks.done =>
        \A k \in 1..Len(chunks.list) :
            LET c == chunks.list[k]
            IN  /\ ProperPrefix(root, c.origin)
                /\ \A q \in Below(root, c.origin) :
                       /\ NodeAt(dom, q).tag
                            \notin {"script", "style", "nav", "header", "footer", "aside"}
                       /\ ~NodeAt(dom, q).hidden
                /\ c.type = "list" =>
                       \A q \in Below(root, c.origin) : NodeAt(dom, q).tag # "aside"

\* a run over a document with a list inside an aside below the root, and
\* chunks from the rest of it
C11_Witness ==
    /\ chunks.done
    /\ chunks.list # <<>>
    /\ \E q \in Paths(dom) :
          /\ NodeAt(dom, q).tag = "ul"
          /\ \E a \in Below(root, q) : NodeAt(dom, a).tag = "aside"
    /\ \E q \in Paths(dom) : ProperPrefix(root, q) /\ NodeAt(dom, q).hidden

DocBefore(p, q) ==
    \/ ProperPrefix(p, q)
    \/ \E k \in 1..Len(p) :
          /\ k <= Len(q)
          /\ SubSeq(p, 1, k - 1) = SubSeq(q, 1, k - 1)
          /\ p[k] < q[k]

\* the chunks of the run put in the document order of their origins
InDocOrder ==
    LET cs == chunks.list
        Rank(k) == Cardinality({j \in 1..Len(cs) : DocBefore(cs[j].origin, cs[k].origin)})
    IN  [n \in 1..Len(cs) |-> cs[CHOOSE k \in 1..Len(cs) : Rank(k) = n - 1]]

\* C13: the order of the chunks equals the document order of the elements
\* they come from, and so does the order of the blocks of the rendered body.
C13_ChunkOrder ==
    chunks.done =>
        /\ \A i, j \in 1..Len(chunks.list) :
               i < j => DocBefore(chunks.list[i].origin, chunks.list[j].origin)
        /\ RenderBody(chunks.list) = RenderBody(InDocOrder)

\* three chunks or more, one of them from inside the element of another
C13_Witness ==
    /\ chunks.done
    /\ Len(chunks.list) >= 3
    /\ \E p, q \in Origins : ProperPrefix(p, q)

\* the list chunks of the run
ListChunks == {k \in 1..Len(chunks.list) : chunks.list[k].type = "list"}

\* the li children of the list a list chunk comes from
DirectItems(c) == SelectSeq(NodeAt(dom, c.origin).kids, LAMBDA n : n.tag = "li")

\* C23: a list chunk has one item for each direct li child of its list and
\* none for a nested li, and the content of a nested list is in the nested
\* list's own chunk only: no item of the enclosing list's chunk holds it.
C23_NestedListNotDuplicated ==
    chunks.done =>
        /\ \A k \in ListChunks :
               Len(chunks.list[k].items) = Len(DirectItems(chunks.list[k]))
        /\ \A j, k \in ListChunks :
               ProperPrefix(chunks.list[j].origin, chunks.list[k].origin) =>
                   \A a \in 1..Len(chunks.list[j].items) :
                       \A b \in 1..Len(chunks.list[k].items) :
                           ~Contains(chunks.list[j].items[a], chunks.list[k].items[b])

\* the text a chunk holds
ChunkText(c) ==
    CASE c.type = "list" -> Join(c.items, <<NL>>)
      [] c.type = "code" -> c.code
      [] OTHER -> c.text

\* the text nodes under the root that no rejected element holds and that are
\* not whitespace only
VisibleTextNodes ==
    {q \in Paths(dom) :
        /\ ProperPrefix(root, q)
        /\ ~IsElement(NodeAt(dom, q))
        /\ Trim(NodeAt(dom, q).text) # <<>>
        /\ \A e \in Below(root, q) : acceptNode(NodeAt(dom, e)) = "FILTER_ACCEPT"}

\* C28: chunking drops no article text: every visible text node under the
\* root that is not whitespace and not inside a rejected subtree is in the
\* text of at least one chunk, the text directly in the root element and the
\* text next to block-level children of a container included.
C28_NoTextDropped ==
    chunks.done =>
        \A q \in VisibleTextNodes :
            \E k \in 1..Len(chunks.list) :
                Contains(ChunkText(chunks.list[k]), Trim(NodeAt(dom, q).text))

\* ------------------------------------------------- heading hierarchy

MaxHeadings == 3

InitHeadings ==
    /\ headings \in UNION {[1..n -> 1..6] : n \in 0..MaxHeadings}
    /\ hierarchy = NotRun
    /\ RenderIdle /\ FilterIdle /\ ScoreIdle /\ EnhancedIdle /\ ChunkIdle
    /\ PanelIdle /\ TrimIdle /\ TailIdle

CheckHeadingHierarchy ==
    /\ ~hierarchy.done
    /\ hierarchy' = [done |-> TRUE, ok |-> checkHeadingHierarchy(headings)]
    /\ UNCHANGED <<headings, renderVars, filterVars, scoreVars, enhancedVars, chunkVars,
                   panelVars, trimVars, tailVars>>

NextHeadings == CheckHeadingHierarchy

SpecHeadings == InitHeadings /\ [][NextHeadings]_vars

\* C14: checkHeadingHierarchy returns false if and only if some heading's
\* level exceeds the level of the heading immediately before it by more
\* than 1, and true in every other case.
C14_HierarchyIff ==
    hierarchy.done =>
        (hierarchy.ok = FALSE
            <=> \E k \in 2..Len(headings) : headings[k] > headings[k - 1] + 1)

\* ------------------------------------------------- the toolbar action

MaxTabs == 2
MaxEvents == 6

Tabs == 1..MaxTabs
\* null, the value sidebarOpenedTabId starts with; tab ids are positive
NullTab == 0

\* the senders of a runtime message: a tab's content script has sender.tab,
\* an extension page such as the side panel has none
Senders == {Absent} \cup {Given(t) : t \in Tabs}

OthersIdleForPanel ==
    /\ RenderIdle /\ FilterIdle /\ ScoreIdle /\ EnhancedIdle /\ ChunkIdle /\ HeadingIdle
    /\ TrimIdle /\ TailIdle

othersForPanel ==
    <<renderVars, filterVars, scoreVars, enhancedVars, chunkVars, headingVars, trimVars,
      tailVars>>

InitPanel ==
    /\ sidebarOpenedTabId = NullTab
    /\ panelOpen = FALSE
    /\ badge = ""
    /\ events = 0
    /\ OthersIdleForPanel

\* chrome.action.onClicked, the branch taken when sidebarOpenedTabId is set:
\* the badge flashes, CLOSE_SIDEBAR is sent, and the id is cleared. No page of
\* the extension has a listener that acts on CLOSE_SIDEBAR, so the panel
\* stays as it is whether or not the message is delivered.
ActionClickedWhileTracked ==
    /\ events < MaxEvents
    /\ sidebarOpenedTabId # NullTab
    /\ badge' = "close"
    /\ sidebarOpenedTabId' = NullTab
    /\ events' = events + 1
    /\ UNCHANGED <<panelOpen, othersForPanel>>

\* chrome.action.onClicked, the other branch: sidePanel.open either resolves,
\* and the panel shows and the id is set, or rejects, and only the badge changes
ActionClickedWhileUntracked ==
    /\ events < MaxEvents
    /\ sidebarOpenedTabId = NullTab
    /\ \E tab \in Tabs : \E opens \in BOOLEAN :
        IF opens
            THEN /\ panelOpen' = TRUE
                 /\ badge' = "open"
                 /\ sidebarOpenedTabId' = tab
            ELSE /\ badge' = "error"
                 /\ UNCHANGED <<panelOpen, sidebarOpenedTabId>>
    /\ events' = events + 1
    /\ UNCHANGED othersForPanel

\* the user closes the side panel with the browser's own control: the panel's
\* page is unloaded; it sends nothing and holds no port to the background
UserClosesPanel ==
    /\ events < MaxEvents
    /\ panelOpen
    /\ panelOpen' = FALSE
    /\ events' = events + 1
    /\ UNCHANGED <<sidebarOpenedTabId, badge, othersForPanel>>

\* runtime.onMessage, type SIDEBAR_OPENED
SidebarOpenedMessage ==
    /\ events < MaxEvents
    /\ \E sender \in Senders :
        sidebarOpenedTabId' = IF sender.present THEN sender.v ELSE sidebarOpenedTabId
    /\ events' = events + 1
    /\ UNCHANGED <<panelOpen, badge, othersForPanel>>

\* runtime.onMessage, type SIDEBAR_CLOSED
SidebarClosedMessage ==
    /\ events < MaxEvents
    /\ sidebarOpenedTabId' = NullTab
    /\ events' = events + 1
    /\ UNCHANGED <<panelOpen, badge, othersForPanel>>

\* the onDisconnect listener of a port named sidepanel-channel
PortDisconnect ==
    /\ events < MaxEvents
    /\ sidebarOpenedTabId' = NullTab
    /\ events' = events + 1
    /\ UNCHANGED <<panelOpen, badge, othersForPanel>>

\* the timeout flashBadge sets: the badge text is cleared
BadgeTimeout ==
    /\ badge # ""
    /\ badge' = ""
    /\ UNCHANGED <<sidebarOpenedTabId, panelOpen, events, othersForPanel>>

NextPanel ==
    \/ ActionClickedWhileTracked
    \/ ActionClickedWhileUntracked
    \/ UserClosesPanel
    \/ SidebarOpenedMessage
    \/ SidebarClosedMessage
    \/ PortDisconnect
    \/ BadgeTimeout

SpecPanel == InitPanel /\ [][NextPanel]_vars

\* C15: the toolbar action toggles the side panel: after every sequence of
\* action clicks, panel closes by the user, sidebar messages and port
\* disconnects, sidebarOpenedTabId is non-null exactly when the side panel is
\* open, so that a click opens a closed panel and closes an open one.
C15_TrackedIffOpen ==
    (sidebarOpenedTabId # NullTab) <=> panelOpen

\* ------------------------------------------- boundaries and postProcess

\* an element with a class attribute: cls is className split into its names
ClassedElem(tag, cls, kids) ==
    [tag |-> tag, text |-> <<>>, hidden |-> FALSE, kids |-> kids, cls |-> cls, id |-> ""]

classNames(n) == IF "cls" \in DOMAIN n THEN n.cls ELSE <<>>
idOf(n) == IF "id" \in DOMAIN n THEN n.id ELSE ""

\* the simple selectors .name, #name and name
ClassSel(name) == [kind |-> "class", name |-> name]
IdSel(name) == [kind |-> "id", name |-> name]
TagSel(name) == [kind |-> "tag", name |-> name]

SelectorMatches(n, sel) ==
    /\ IsElement(n)
    /\ CASE sel.kind = "class" -> \E k \in 1..Len(classNames(n)) : classNames(n)[k] = sel.name
         [] sel.kind = "id" -> idOf(n) = sel.name
         [] sel.kind = "tag" -> n.tag = sel.name

\* element.querySelectorAll(selector): the paths of the matching descendants,
\* in document order
querySelectorAll(element, sel) ==
    SelectSeq(TreeWalkAll(element, <<>>), LAMBDA q : SelectorMatches(NodeAt(element, q), sel))

\* BoundaryDetector.boundarySelectors
boundarySelectors ==
    <<ClassSel("article-end"), ClassSel("content-end"), ClassSel("story-end"),
      ClassSel("related-articles"), ClassSel("more-stories"), ClassSel("recommended"),
      ClassSel("comments"), ClassSel("comment-section"), IdSel("comments"),
      ClassSel("newsletter-signup"), ClassSel("subscription"),
      ClassSel("social-share"), ClassSel("share-buttons")>>

\* getBoundingClientRect().top of the element at path q: in a rendered
\* document the blocks follow each other downwards in document order; an
\* element that is not rendered has an empty rectangle at 0
RectTop(element, laid, q) ==
    IF laid
    THEN CHOOSE k \in 1..Len(AllFrom(element, <<>>)) : AllFrom(element, <<>>)[k] = q
    ELSE 0

RECURSIVE SortByTop(_, _, _)
\* Array.prototype.sort with the comparator rectA.top - rectB.top: a stable
\* sort, ascending
SortByTop(element, laid, qs) ==
    IF qs = <<>> THEN <<>>
    ELSE LET rest == SortByTop(element, laid, SubSeq(qs, 1, Len(qs) - 1))
             x == qs[Len(qs)]
             before == {k \in 1..Len(rest) :
                           RectTop(element, laid, rest[k]) <= RectTop(element, laid, x)}
             at == IF before = {} THEN 0 ELSE Max(before)
         IN  SubSeq(rest, 1, at) \o <<x>> \o SubSeq(rest, at + 1, Len(rest))

\* a sort that leaves the array as it is
SortNot(element, laid, qs) == qs

\* BoundaryDetector.detectBoundaries(candidate): the first three boundaries
detectBoundaries(element, laid) ==
    LET boundaries ==
            Flatten([k \in 1..Len(boundarySelectors) |->
                        querySelectorAll(element, boundarySelectors[k])])
        sorted == SortByTop(element, laid, boundaries)
    IN  SubSeq(sorted, 1, Min({3, Len(sorted)}))

\* getElementSelector(element)
getElementSelector(n) ==
    IF idOf(n) # "" THEN IdSel(idOf(n))
    ELSE IF classNames(n) # <<>> THEN ClassSel(classNames(n)[1])
    ELSE TagSel(n.tag)

RECURSIVE WithKids(_, _, _)
\* the tree n with the child list of the node at path replaced
WithKids(n, path, kids) ==
    IF path = <<>> THEN [n EXCEPT !.kids = kids]
    ELSE [n EXCEPT !.kids[Head(path)] = WithKids(n.kids[Head(path)], Tail(path), kids)]

\* the while loop of postProcess and the removal after it: the siblings
\* after the node at path go, then the node itself
RemoveFrom(n, path) ==
    LET parent == SubSeq(path, 1, Len(path) - 1)
    IN  WithKids(n, parent, SubSeq(NodeAt(n, parent).kids, 1, path[Len(path)] - 1))

\* a removal that takes the node at path alone
RemoveOnly(n, path) ==
    LET parent == SubSeq(path, 1, Len(path) - 1)
        kids == NodeAt(n, parent).kids
        at == path[Len(path)]
    IN  WithKids(n, parent, SubSeq(kids, 1, at - 1) \o SubSeq(kids, at + 1, Len(kids)))

\* p:empty, div:empty, span:empty
IsEmptyElement(n) == n.tag \in {"p", "div", "span"} /\ n.kids = <<>>

RECURSIVE removeEmptyElements(_)
\* removeEmptyElements(element): the elements that are empty when the query
\* runs are removed; an element that becomes empty through it stays
removeEmptyElements(n) ==
    LET kept == SelectSeq(n.kids, LAMBDA c : ~IsEmptyElement(c))
    IN  [n EXCEPT !.kids = [k \in 1..Len(kept) |-> removeEmptyElements(kept[k])]]

RECURSIVE normalizeWhitespace(_)
\* normalizeWhitespace(element): nodeValue.replace(/\s+/g, ' ') in each text node
normalizeWhitespace(n) ==
    IF ~IsElement(n)
    THEN [n EXCEPT !.text = Replace(Rep(Cls(WS), 1, Unbounded, TRUE), n.text, <<SP>>)]
    ELSE [n EXCEPT !.kids = [k \in 1..Len(n.kids) |-> normalizeWhitespace(n.kids[k])]]

\* postProcess(boundaryResult)
postProcess(element, boundaries) ==
    LET found ==
            IF boundaries = <<>> THEN <<>>
            ELSE querySelectorAll(element,
                                  getElementSelector(NodeAt(element, boundaries[1])))
        cut == IF found = <<>> THEN element ELSE RemoveFrom(element, found[1])
    IN  normalizeWhitespace(removeEmptyElements(cut))

\* layers 5 and 6 of extractMainContent on the element of the best candidate
TrimBestCandidate(element, laid, enableBoundaryDetection) ==
    postProcess(element,
                IF enableBoundaryDetection THEN detectBoundaries(element, laid) ELSE <<>>)

\* ------------------------------------------------- trimming an article

MaxSections == 3

P(ws) == Elem("p", <<TextNode(ws)>>)

\* the parts of the articles of createArticleWithRelatedDOM and
\* createArticleWithSocialDOM
Headline == Elem("h1", <<TextNode(<<"Headline">>)>>)
ArticleContent ==
    ClassedElem("div", <<"article-content">>,
                <<P(<<"Body1", SP, NL, SP, "text">>), P(<<"Body2">>)>>)
ArticleEnd == ClassedElem("div", <<"article-end">>, <<>>)
RelatedStories ==
    ClassedElem("section", <<"related-articles">>,
                <<Elem("h3", <<TextNode(<<"Related", SP, "Stories">>)>>),
                  ClassedElem("div", <<"related-item">>, <<P(<<"Related", SP, "story">>)>>)>>)
SocialShare ==
    ClassedElem("div", <<"social-share">>,
                <<Elem("button", <<TextNode(<<"Share", SP, "on", SP, "Facebook">>)>>)>>)
NewsletterSignup ==
    ClassedElem("div", <<"newsletter-signup">>,
                <<Elem("h3", <<TextNode(<<"Subscribe">>)>>)>>)
CommentsSection ==
    ClassedElem("section", <<"comments">>,
                <<Elem("h3", <<TextNode(<<"Comments">>)>>),
                  ClassedElem("div", <<"comment">>, <<P(<<"Comment">>)>>)>>)

Surroundings == {SocialShare, NewsletterSignup, CommentsSection, RelatedStories}
Sections == Surroundings \cup {ArticleContent, ArticleEnd}

\* an article: the headline, then its body among up to MaxSections sections
Articles ==
    {Elem("article", <<Headline>> \o ss) :
        ss \in {t \in UNION {[1..n -> Sections] : n \in 1..MaxSections} :
                   /\ \E k \in 1..Len(t) : t[k] = ArticleContent
                   /\ \A j, k \in 1..Len(t) : j # k => t[j] # t[k]}}

InitTrim ==
    /\ article \in Articles
    /\ laidOut \in BOOLEAN
    /\ boundaryDetection \in BOOLEAN
    /\ trimmed = NotRun
    /\ RenderIdle /\ FilterIdle /\ ScoreIdle /\ EnhancedIdle /\ ChunkIdle /\ HeadingIdle
    /\ PanelIdle /\ TailIdle

\* layers 5 and 6 of extractMainContent
DetectBoundariesAndPostProcess ==
    /\ ~trimmed.done
    /\ trimmed' = [done |-> TRUE,
                   content |-> TrimBestCandidate(article, laidOut, boundaryDetection)]
    /\ UNCHANGED <<article, laidOut, boundaryDetection, renderVars, filterVars, scoreVars,
                   enhancedVars, chunkVars, headingVars, panelVars, tailVars>>

NextTrim == DetectBoundariesAndPostProcess

SpecTrim == InitTrim /\ [][NextTrim]_vars

\* the words of the text of an element
WordsOf(n) == {textContent(n)[k] : k \in 1..Len(textContent(n))} \ WS

HasSurroundings(a) == \E k \in 1..Len(a.kids) : a.kids[k] \in Surroundings

\* C16: with boundary detection on, for an article whose body is accompanied
\* by share buttons, a newsletter signup, comments or related stories, before
\* or after the body, the extracted content contains the headline and every
\* body paragraph and none of the text of those sections.
C16_TrimKeepsArticle ==
    (trimmed.done /\ boundaryDetection /\ HasSurroundings(article)) =>
        /\ WordsOf(Headline) \subseteq WordsOf(trimmed.content)
        /\ WordsOf(ArticleContent) \subseteq WordsOf(trimmed.content)
        /\ \A s \in Surroundings :
               (\E k \in 1..Len(article.kids) : article.kids[k] = s)
                   => WordsOf(s) \cap WordsOf(trimmed.content) = {}

\* ------------------------------------------------------- the two walks

\* elements for the candidate-collection walk
PostContentAside == [tag |-> "aside", classes |-> {"post-content"}]
StoryHeader == [tag |-> "header", classes |-> {"story"}]
NoScript == [tag |-> "noscript"]

WalkElements ==
    {Element(PostContentAside, ArticleText, Byline, Centred),
     Element(StoryHeader, ShortText, Byline, Centred),
     Element(NoScript, ShortText, Bare, Centred),
     Element(ArticleTag, ArticleText, Byline, Centred),
     Element(ArticleTag, ArticleText, Byline, NotDisplayed)}

\* fragments for the chunking walk
WalkFragments ==
    {Elem("p", <<TextNode(<<"Para">>)>>),
     Elem("noscript", <<Elem("p", <<TextNode(<<"Enable", SP, "scripts">>)>>)>>),
     Elem("nav", <<Elem("p", <<TextNode(<<"Home">>)>>)>>),
     HiddenElem("div", <<Elem("p", <<TextNode(<<"ghost">>)>>)>>)}

\* one document seen by the candidate walk, one by the chunking walk
InitWalks ==
    /\ doc \in UNION {[1..n -> WalkElements] : n \in 1..MaxElements}
    /\ rawConfig \in {c \in Configs : c.mode = Absent /\ c.minContentScore = Absent}
    /\ result = NotRun
    /\ dom \in {Elem("body", <<Elem("article", fs)>>) :
                   fs \in UNION {[1..n -> WalkFragments] : n \in 1..MaxBlocks}}
    /\ root = <<>>
    /\ chunks = NotRun
    /\ RenderIdle /\ FilterIdle /\ ScoreIdle /\ HeadingIdle /\ PanelIdle /\ TrimIdle
    /\ TailIdle

NextWalks ==
    \/ ExtractMainContent
    \/ ChunkDomToSemanticBlocks

SpecWalks == InitWalks /\ [][NextWalks]_vars

\* the rejection set the two walks are to share
SharedRejectTags ==
    {"script", "style", "noscript", "template", "meta", "link",
     "nav", "header", "footer", "aside"}

\* the candidates the collection walk offers
Offered == findCandidates(preprocessDOM(doc))

\* C20: the candidate-collection walk and the chunking walk apply the same
\* rejection rule. An element is skipped with its subtree exactly when its
\* tag is one of script, style, noscript, template, meta, link, nav, header,
\* footer, aside or it is hidden: the collection walk returns exactly the
\* other elements, no nav, header, footer or aside is offered as a candidate,
\* and no chunk comes from inside a skipped element.
C20_SameRejectionRule ==
    /\ result.done =>
          /\ \A k \in 1..Len(doc) :
                 (\E j \in 1..Len(preprocessDOM(doc)) : preprocessDOM(doc)[j].element = k)
                     <=> ~(doc[k].tag \in SharedRejectTags \/ doc[k].hidden)
          /\ \A k \in 1..Len(Offered) :
                 Offered[k].el.tag \notin {"nav", "header", "footer", "aside"}
    /\ chunks.done =>
          \A k \in 1..Len(chunks.list) :
              \A q \in Below(root, chunks.list[k].origin) :
                  /\ NodeAt(dom, q).tag \notin SharedRejectTags
                  /\ ~NodeAt(dom, q).hidden

\* ------------------------------------------- findMainContentElement

\* a text node of n characters, none of them whitespace at its ends
Chars(n) == [tag |-> "#text", text |-> <<>>, hidden |-> FALSE, kids |-> <<>>, len |-> n]

RECURSIVE Sum(_)
Sum(ns) == IF ns = <<>> THEN 0 ELSE Head(ns) + Sum(Tail(ns))

RECURSIVE TextLength(_)
\* node.textContent.trim().length
TextLength(n) ==
    IF ~IsElement(n) THEN n.len
    ELSE Sum([k \in 1..Len(n.kids) |-> TextLength(n.kids[k])])

RECURSIVE FilteredLength(_)
\* the text length of a node with its script, style, nav, header, footer and
\* aside elements removed
FilteredLength(n) ==
    IF ~IsElement(n) THEN n.len
    ELSE IF n.tag \in {"script", "style", "nav", "header", "footer", "aside"} THEN 0
    ELSE Sum([k \in 1..Len(n.kids) |-> FilteredLength(n.kids[k])])

\* getTextContentLength(element): the removal takes the descendants of the
\* clone, never the clone itself
getTextContentLength(n) ==
    Sum([k \in 1..Len(n.kids) |-> FilteredLength(n.kids[k])])

\* the contentSelectors of findMainContentElement, as selectors
mainContentSelectors ==
    <<TagSel("article"), TagSel("main"), ClassSel("content"), ClassSel("post-content"),
      ClassSel("article-content"), ClassSel("entry-content"), IdSel("content"),
      ClassSel("main-content")>>

NoPath == [found |-> FALSE]
Found(path) == [found |-> TRUE, path |-> path]

RECURSIVE SelectorElements(_, _, _)
\* the inner loop of findMainContentElement over the elements qs of one
\* selector: best is [element, score]
SelectorElements(d, qs, best) ==
    IF qs = <<>> THEN best
    ELSE LET n == NodeAt(d, Head(qs))
             score == getTextContentLength(n)
         IN  IF ~n.hidden /\ score > best.score
             THEN SelectorElements(d, Tail(qs), [element |-> Found(Head(qs)), score |-> score])
             ELSE SelectorElements(d, Tail(qs), best)

RECURSIVE SelectorLoop(_, _, _)
\* the outer loop over contentSelectors[k..]
SelectorLoop(d, k, best) ==
    IF k > Len(mainContentSelectors) THEN best
    ELSE LET b == SelectorElements(d, querySelectorAll(d, mainContentSelectors[k]), best)
         IN  IF b.score > 1000 THEN b ELSE SelectorLoop(d, k + 1, b)

RECURSIVE DensestParagraph(_, _, _)
\* the loop over document.querySelectorAll('p'): best is [element, score]
DensestParagraph(d, qs, best) ==
    IF qs = <<>> THEN best
    ELSE LET n == NodeAt(d, Head(qs))
         IN  IF ~n.hidden /\ TextLength(n) > best.score
             THEN DensestParagraph(d, Tail(qs),
                                   [element |-> Found(Head(qs)), score |-> TextLength(n)])
             ELSE DensestParagraph(d, Tail(qs), best)

\* the p that the fallback starts from, if any
bestParagraph(d) ==
    DensestParagraph(d, querySelectorAll(d, TagSel("p")), [element |-> NoPath, score |-> 0])

\* the least length a paragraph qualifies with
\* if (bestParagraph && bestParagraphScore > 100)
Qualifies(score) == score > 100

\* parentScore > bestParentScore * 1.2
ExceedsByFifth(parentScore, bestParentScore) == parentScore * 10 > bestParentScore * 12

\* element.parentElement; the html element has none
parentElement(path) ==
    IF path = <<>> THEN NoPath ELSE Found(SubSeq(path, 1, Len(path) - 1))

RECURSIVE ExpandLoop(_, _, _, _)
\* for (let i = 0; i < 3; i++) from iteration i on: parent is the element
\* examined last, best is [element, score]
ExpandLoop(d, i, parent, best) ==
    IF i >= 3 \/ ~parent.found THEN best
    ELSE LET next == parentElement(parent.path)
         IN  IF ~next.found THEN best
             ELSE LET parentScore == getTextContentLength(NodeAt(d, next.path))
                  IN  ExpandLoop(d, i + 1, next,
                                 IF ExceedsByFifth(parentScore, best.score)
                                 THEN [element |-> next, score |-> parentScore]
                                 ELSE best)

\* findMainContentElement(): an element of the document or null
findMainContentElement(d) ==
    LET bySelector == SelectorLoop(d, 1, [element |-> NoPath, score |-> 0])
        p == bestParagraph(d)
    IN  IF bySelector.score < 500 /\ p.element.found /\ Qualifies(p.score)
        THEN LET parent == parentElement(p.element.path)
             IN  ExpandLoop(d, 0, parent,
                            [element |-> parent,
                             score |-> getTextContentLength(NodeAt(d, parent.path))]).element
        ELSE bySelector.element

\* ------------------------------------------------- the main element

MaxDepth == 4

Para(n) == Elem("p", <<Chars(n)>>)

RECURSIVE Nest(_, _, _, _)
\* the paragraph of len characters inside k containers, the innermost of
\* which has the tag inner; container j holds a paragraph of beside[j]
\* characters next to what it wraps
Nest(k, len, beside, inner) ==
    IF k = 0 THEN Para(len)
    ELSE Elem(IF k = 1 THEN inner ELSE "div",
              <<Nest(k - 1, len, beside, inner)>>
                  \o (IF beside[k] > 0 THEN <<Para(beside[k])>> ELSE <<>>))

\* the html element: a head with a title, a body
Html(titleLength, bodyKids) ==
    Elem("html", <<Elem("head", <<Elem("title", <<Chars(titleLength)>>)>>),
                   Elem("body", bodyKids)>>)

BodyPath == <<2>>

HtmlDocuments ==
    {Html(t, <<Nest(k, len, beside, inner)>> \o extra) :
        t \in {10, 300},
        len \in {99, 100, 101, 150},
        inner \in {"div", "article"},
        extra \in {<<>>, <<HiddenElem("p", <<Chars(200)>>)>>},
        k \in 0..MaxDepth,
        beside \in [1..MaxDepth -> {0, 60}]}

InitMain ==
    /\ htmlDocument \in HtmlDocuments
    /\ mainEl = NotRun
    /\ EarlierIdle /\ TailIdleExcept("main")

\* const mainEl = findMainContentElement()
FindMainContentElement ==
    /\ ~mainEl.done
    /\ mainEl' = [done |-> TRUE, element |-> findMainContentElement(htmlDocument)]
    /\ UNCHANGED <<htmlDocument, earlierVars>>
    /\ TailKeepExcept("main")

NextMain == FindMainContentElement

SpecMain == InitMain /\ [][NextMain]_vars

\* const root = selectionInfo.containerEl || mainEl || document.body, with
\* no selection
ExtractionRoot == IF mainEl.element.found THEN mainEl.element.path ELSE BodyPath

\* no element of the document matches a content selector
NoSelectorMatches ==
    \A k \in 1..Len(mainContentSelectors) :
        querySelectorAll(htmlDocument, mainContentSelectors[k]) = <<>>

\* the visible paragraphs of the document
VisibleParagraphs ==
    {q \in Paths(htmlDocument) :
        NodeAt(htmlDocument, q).tag = "p" /\ ~NodeAt(htmlDocument, q).hidden}

\* C21: when no selector matches, the extraction root is the document body
\* if and only if no visible paragraph reaches 100 characters of text.
C21_BodyIffNoParagraph ==
    (mainEl.done /\ NoSelectorMatches) =>
        (ExtractionRoot = BodyPath
            <=> \A q \in VisibleParagraphs : TextLength(NodeAt(htmlDocument, q)) < 100)

\* C22: the element the density expansion returns is an ancestor of the
\* longest qualifying paragraph no more than 3 levels above it, and it is
\* the parent of the paragraph unless its filtered text length exceeds the
\* parent's by more than 20%.
C22_WithinThreeLevels ==
    (mainEl.done /\ NoSelectorMatches /\ mainEl.element.found) =>
        LET p == bestParagraph(htmlDocument).element.path
            e == mainEl.element.path
        IN  /\ ProperPrefix(e, p)
            /\ Len(p) - Len(e) <= 3
            /\ Len(p) - Len(e) > 1 =>
                   ExceedsByFifth(getTextContentLength(NodeAt(htmlDocument, e)),
                                  getTextContentLength(NodeAt(htmlDocument,
                                                              parentElement(p).path)))

\* ------------------------------------------- the orphan-heading sweep

MaxLines == 3

\* the lines of the texts that reach the fixed passes
SweepLines ==
    {<<HASH, HASH, HASH, SP, "Related">>,
     <<HASH, HASH, HASH, HASH, SP, "popular">>,
     <<HASH, HASH, SP, "Recommended">>,
     <<HASH, SP, "Trending", SP, "in", SP, "tech">>,
     <<HASH, HASH, SP, "Next", SP, "Real", SP, "Section">>,
     <<"Body">>,
     <<>>}

\* texts of 1..MaxLines lines; like the body renderMarkdown passes, a text
\* ends with a newline
SweepTexts ==
    {Join(ls, <<NL>>) \o <<NL>> : ls \in UNION {[1..n -> SweepLines] : n \in 1..MaxLines}}

\* content.replace(standaloneHeading, '\n')
SweepOnce(c) == Replace(standaloneHeading, c, <<NL>>)

InitSweep ==
    /\ sweepText \in SweepTexts
    /\ sweepPc = "sections"
    /\ sweepPasses = 0
    /\ EarlierIdle /\ TailIdleExcept("sweep")

\* the replace of removable ## sections, which precedes the loop
RemoveSections ==
    /\ sweepPc = "sections"
    /\ sweepText' = Replace(RemovableSection, sweepText, <<NL>>)
    /\ sweepPc' = "loop"
    /\ UNCHANGED <<sweepPasses, earlierVars>>
    /\ TailKeepExcept("sweep")

\* one pass of do { prev = content; content = content.replace(...) }
\* while (content !== prev)
SweepPass ==
    /\ sweepPc = "loop"
    /\ sweepText' = SweepOnce(sweepText)
    /\ sweepPc' = IF SweepOnce(sweepText) # sweepText THEN "loop" ELSE "cleanup"
    /\ sweepPasses' = IF SweepOnce(sweepText) # sweepText THEN sweepPasses + 1
                      ELSE sweepPasses
    /\ UNCHANGED earlierVars
    /\ TailKeepExcept("sweep")

NextSweep == RemoveSections \/ SweepPass

SpecSweep == InitSweep /\ [][NextSweep]_vars

\* the statements of filterMarkdown follow each other: a pass that can run
\* does run. Every step of NextSweep changes sweepPc or sweepPasses, and one
\* is due until the loop is left.
Advance ==
    /\ sweepPc \in {"sections", "loop"}
    /\ sweepPc' \in {"loop", "cleanup"}
    /\ sweepPasses' \in {sweepPasses, sweepPasses + 1}

FairSweep == SpecSweep /\ WF_<<sweepPc, sweepPasses>>(Advance)

\* the number of # a line starts with
LeadingHashes(l) ==
    Cardinality({k \in 1..Len(l) : \A j \in 1..k : l[j] = HASH})

\* a line that starts a heading: one to six #, then whitespace
IsHeadingLine(l) ==
    /\ LeadingHashes(l) \in 1..6
    /\ Len(l) > LeadingHashes(l)
    /\ l[LeadingHashes(l) + 1] \in WS

\* the heading texts of the model that are keywords of the sweep
SweepKeywordTexts ==
    {<<"Related">>, <<"Popular">>, <<"popular">>, <<"Recommended">>,
     <<"Trending", SP, "in", SP, "tech">>}

\* a heading of level 1 to 4 whose text is a keyword
IsKeywordHeading(l) ==
    /\ LeadingHashes(l) \in 1..4
    /\ Trim(SubSeq(l, LeadingHashes(l) + 1, Len(l))) \in SweepKeywordTexts

\* line k of the text is a keyword heading with no body: the next line that
\* is not blank is a heading, or there is none
OrphanAt(ls, k) ==
    /\ IsKeywordHeading(ls[k])
    /\ \/ \A j \in (k + 1)..Len(ls) : Trim(ls[j]) = <<>>
       \/ \E j \in (k + 1)..Len(ls) :
              /\ IsHeadingLine(ls[j])
              /\ \A i \in (k + 1)..(j - 1) : Trim(ls[i]) = <<>>

HasOrphan(c) == \E k \in 1..Len(Split(c, NL)) : OrphanAt(Split(c, NL), k)

\* C24: the orphan-heading sweep terminates: the loop is left after finitely
\* many passes, every pass that changes the text makes it strictly shorter,
\* and the text the loop leaves has no keyword heading that is followed at
\* once by another heading or by the end of the text.
C24_SweepTerminates ==
    /\ <>(sweepPc = "cleanup")
    /\ [][sweepPc = "loop" /\ sweepText' # sweepText => Len(sweepText') < Len(sweepText)]_vars
    /\ [](sweepPc = "cleanup" => ~HasOrphan(sweepText))

\* a run in which a pass removed an orphan heading and the loop was left
C24_Witness ==
    /\ sweepPc = "cleanup"
    /\ sweepPasses >= 1
    /\ Contains(sweepText, <<"Body">>)

\* ------------------------------------------- Alt+E: extract and copy

MaxCommands == 2

\* what the function injected by writeToClipboardViaPage meets in the page
PageOutcomes ==
    {"writeText",          \* navigator.clipboard.writeText resolves
     "execCommand",        \* writeText is missing or rejects, execCommand('copy') is true
     "execCommandFalse",   \* writeText is missing or rejects, execCommand('copy') is false
     "pageThrows",         \* the injected function throws (no document.body)
     "scriptRejected"}     \* executeScript itself rejects (the tab is gone)

\* what one Alt+E command meets
CommandEnvs ==
    [tab : BOOLEAN,                             \* tabs.query finds an active tab
     extraction : {"throws", "empty", "markdown"},
     prompt : BOOLEAN,                          \* a customPrompt is stored
     page : PageOutcomes,
     throwRejects : BOOLEAN,                    \* executeScript rejects when the function throws
     listener : BOOLEAN]                        \* the page listens for SHOW_INPAGE_NOTIFICATION

NothingToCopy == <<>>

\* extractedText with the header the handler prepends
TextToCopy(env) ==
    IF env.extraction # "markdown" THEN NothingToCopy
    ELSE (IF env.prompt THEN <<"customPrompt">> ELSE <<>>) \o <<"Source", "markdown">>

\* writeToClipboardViaPage: written tells whether the page wrote the text,
\* ok is the value the function returns to the handler
writeToClipboardViaPage(env) ==
    CASE env.page = "writeText"        -> [written |-> TRUE, ok |-> TRUE]
      [] env.page = "execCommand"      -> [written |-> TRUE, ok |-> TRUE]
      [] env.page = "execCommandFalse" -> [written |-> FALSE, ok |-> TRUE]
      [] env.page = "pageThrows"       -> [written |-> FALSE, ok |-> ~env.throwRejects]
      [] env.page = "scriptRejected"   -> [written |-> FALSE, ok |-> FALSE]

\* flashBadge(text, ...) followed by tabs.sendMessage of the notification
Cue(env, text, title) ==
    [badges |-> <<text>>, notices |-> IF env.listener THEN <<title>> ELSE <<>>]

\* the listener of chrome.commands.onCommand for 'extension.extractAndCopy'
HandleCommand(env) ==
    IF ~env.tab THEN [badges |-> <<>>, notices |-> <<>>, written |-> FALSE]
    ELSE IF env.extraction = "throws"
    THEN Cue(env, "ERR", "Extraction Error") @@ [written |-> FALSE]
    ELSE IF TextToCopy(env) = NothingToCopy
    THEN Cue(env, "N/A", "No Content Extracted") @@ [written |-> FALSE]
    ELSE LET w == writeToClipboardViaPage(env)
         IN  (IF w.ok THEN Cue(env, "Done", "Content Copied")
              ELSE Cue(env, "ERR", "Copy Failed")) @@ [written |-> w.written]

InitCopy ==
    /\ command = [env |-> [tab |-> FALSE, extraction |-> "empty", prompt |-> FALSE,
                           page |-> "writeText", throwRejects |-> FALSE,
                           listener |-> FALSE],
                  badges |-> <<>>, notices |-> <<>>, written |-> FALSE]
    /\ clipboard = NothingToCopy
    /\ commands = 0
    /\ EarlierIdle /\ TailIdleExcept("copy")

ExtractAndCopy ==
    /\ commands < MaxCommands
    /\ \E env \in CommandEnvs :
          LET h == HandleCommand(env)
          IN  /\ command' = [env |-> env] @@ h
              /\ clipboard' = IF h.written THEN TextToCopy(env) ELSE clipboard
    /\ commands' = commands + 1
    /\ UNCHANGED earlierVars
    /\ TailKeepExcept("copy")

NextCopy == ExtractAndCopy

SpecCopy == InitCopy /\ [][NextCopy]_vars

\* C26: a handled Alt+E command with an active tab shows exactly one cue, and
\* the cue tells what happened: Done / Content Copied only when the text was
\* written to the clipboard, N/A / No Content Extracted with nothing copied
\* when the page gave no content, ERR when the extraction or the clipboard
\* write failed.
C26_CueMatchesOutcome ==
    commands > 0 /\ command.env.tab =>
        /\ Len(command.badges) = 1
        /\ Len(command.notices) <= 1
        /\ command.badges[1] = "Done" =>
               command.written /\ clipboard = TextToCopy(command.env)
        /\ \A k \in 1..Len(command.notices) :
               command.notices[k] = "Content Copied" => command.written
        /\ command.env.extraction = "empty" =>
               command.badges[1] = "N/A" /\ ~command.written
        /\ command.env.extraction = "throws" => command.badges[1] = "ERR"
        /\ command.env.extraction = "markdown" /\ ~command.written =>
               command.badges[1] = "ERR"

\* ------------------------------------- TRIGGER_EXTRACTION after a click

\* the longest time observed, in tenths of a second
MaxElapsed == 10

\* setTimeout(..., 500)
TriggerDelay == 5

InitTrigger ==
    /\ sidePanel = "closed"
    /\ loadTime \in 0..MaxElapsed
    /\ elapsed = 0
    /\ timer = "none"
    /\ extractions = 0
    /\ lostMessages = 0
    /\ EarlierIdle /\ TailIdleExcept("trigger")

\* chrome.action.onClicked with sidebarOpenedTabId null: sidePanel.open
\* resolves, the timeout is set
ActionClickedOpens ==
    /\ sidePanel = "closed" /\ timer = "none"
    /\ sidePanel' = "loading"
    /\ timer' = "pending"
    /\ UNCHANGED <<loadTime, elapsed, extractions, lostMessages, earlierVars>>
    /\ TailKeepExcept("trigger")

\* sidePanel.open rejects: the error badge, no timeout
ActionClickedFails ==
    /\ sidePanel = "closed" /\ timer = "none"
    /\ timer' = "unset"
    /\ UNCHANGED <<sidePanel, loadTime, elapsed, extractions, lostMessages, earlierVars>>
    /\ TailKeepExcept("trigger")

\* a tenth of a second passes; what is due now happens first
TimePasses ==
    /\ sidePanel # "closed"
    /\ elapsed < MaxElapsed
    /\ timer = "pending" => elapsed < TriggerDelay
    /\ sidePanel = "loading" => elapsed < loadTime
    /\ elapsed' = elapsed + 1
    /\ UNCHANGED <<sidePanel, loadTime, timer, extractions, lostMessages, earlierVars>>
    /\ TailKeepExcept("trigger")

\* sidebar.js has run to chrome.runtime.onMessage.addListener
SidebarListens ==
    /\ sidePanel = "loading"
    /\ elapsed = loadTime
    /\ sidePanel' = "listening"
    /\ UNCHANGED <<loadTime, elapsed, timer, extractions, lostMessages, earlierVars>>
    /\ TailKeepExcept("trigger")

\* the timeout callback: runtime.sendMessage({type: 'TRIGGER_EXTRACTION'});
\* with a listener the sidebar runs extractPageContent, without one the
\* promise rejects and .catch drops the error
TimeoutSendsTrigger ==
    /\ timer = "pending"
    /\ elapsed = TriggerDelay
    /\ timer' = "fired"
    /\ IF sidePanel = "listening"
       THEN extractions' = extractions + 1 /\ UNCHANGED lostMessages
       ELSE lostMessages' = lostMessages + 1 /\ UNCHANGED extractions
    /\ UNCHANGED <<sidePanel, loadTime, elapsed, earlierVars>>
    /\ TailKeepExcept("trigger")

NextTrigger ==
    \/ ActionClickedOpens
    \/ ActionClickedFails
    \/ TimePasses
    \/ SidebarListens
    \/ TimeoutSendsTrigger

SpecTrigger == InitTrigger /\ [][NextTrigger]_vars

\* time passes, a page that loads gets to its listener, a timeout that is
\* due runs
FairTrigger ==
    /\ SpecTrigger
    /\ WF_vars(TimePasses)
    /\ WF_vars(SidebarListens)
    /\ WF_vars(TimeoutSendsTrigger)

\* C27: after a click that opens the side panel the sidebar eventually runs
\* an extraction: the TRIGGER_EXTRACTION message reaches the sidebar's
\* listener however long the sidebar takes to register it.
C27_TriggerReceived == (timer = "pending") ~> (extractions > 0)

\* ------------------------------------- the filter list of the side panel

\* what the user may type into the filter list
TypedFilters ==
    FilterInputs \cup {<<>>, <<NL, NL>>, CommentLine(<<"mine">>), <<"Sponsored", NL, "Promo">>}

\* saveFilters without the coercion of an empty text
saveFiltersAsTyped(value) == [filters |-> Trim(value), value |-> value]

\* saveFilters: the text that is stored and the text the textarea shows
saveFilters(value) ==
    IF Trim(value) = <<>>
    THEN [filters |-> DEFAULT_FILTERS, value |-> DEFAULT_FILTERS]
    ELSE [filters |-> Trim(value), value |-> value]

\* const patterns = filterPatterns || DEFAULT_FILTERS
PatternsFor(stored) == IF Truthy(stored) THEN stored.s ELSE DEFAULT_FILTERS

\* what a run hands to the page, with what it read from the storage
Hands(by, stored) == [by |-> by, read |-> stored, patterns |-> PatternsFor(stored)]

NothingHanded == [by |-> "none", read |-> Null, patterns |-> <<>>]

InitSettings ==
    /\ filterList = <<>>
    /\ syncStorage = [filterPatterns |-> Null]
    /\ handed = NothingHanded
    /\ EarlierIdle /\ TailIdleExcept("settings")

\* the user edits the textarea
UserTypes ==
    /\ \E value \in TypedFilters : filterList' = value
    /\ UNCHANGED <<syncStorage, handed, earlierVars>>
    /\ TailKeepExcept("settings")

\* the click on Save Filters
SaveFiltersClicked ==
    /\ filterList' = saveFilters(filterList).value
    /\ syncStorage' = [filterPatterns |-> Str(saveFilters(filterList).filters)]
    /\ UNCHANGED <<handed, earlierVars>>
    /\ TailKeepExcept("settings")

\* the click on Reset: resetFilters sets the defaults and calls saveFilters
ResetFiltersClicked ==
    /\ filterList' = saveFilters(DEFAULT_FILTERS).value
    /\ syncStorage' = [filterPatterns |-> Str(saveFilters(DEFAULT_FILTERS).filters)]
    /\ UNCHANGED <<handed, earlierVars>>
    /\ TailKeepExcept("settings")

\* loadFilters, when the side panel page loads
LoadFilters ==
    /\ LET saved == IF syncStorage.filterPatterns.null THEN <<>>
                    ELSE syncStorage.filterPatterns.s
       IN  filterList' = IF saved # <<>> /\ Trim(saved) # <<>> THEN saved
                         ELSE DEFAULT_FILTERS
    /\ UNCHANGED <<syncStorage, handed, earlierVars>>
    /\ TailKeepExcept("settings")

\* extractPageContent of the side panel: args: [patterns]
SidebarExtracts ==
    /\ handed' = Hands("sidebar", syncStorage.filterPatterns)
    /\ UNCHANGED <<filterList, syncStorage, earlierVars>>
    /\ TailKeepExcept("settings")

\* the Alt+E command of the background: args: [patterns]
CommandExtracts ==
    /\ handed' = Hands("command", syncStorage.filterPatterns)
    /\ UNCHANGED <<filterList, syncStorage, earlierVars>>
    /\ TailKeepExcept("settings")

NextSettings ==
    \/ UserTypes
    \/ SaveFiltersClicked
    \/ ResetFiltersClicked
    \/ LoadFilters
    \/ SidebarExtracts
    \/ CommandExtracts

SpecSettings == InitSettings /\ [][NextSettings]_vars

\* C29: whatever the user saves, resets or loads, the stored filterPatterns
\* is never empty or only whitespace, and the filter text handed to the page
\* by the Extract button and by Alt+E is never empty: it is the stored text,
\* or DEFAULT_FILTERS when nothing is stored.
C29_FiltersNeverEmpty ==
    /\ ~syncStorage.filterPatterns.null =>
           Trim(syncStorage.filterPatterns.s) # <<>>
    /\ handed.by # "none" =>
           /\ handed.patterns # <<>>
           /\ handed.patterns = IF handed.read.null THEN DEFAULT_FILTERS
                                ELSE handed.read.s

\* the user saved a list of blanks (or pressed Reset) and then pressed Alt+E
C29_Witness ==
    /\ filterList = DEFAULT_FILTERS
    /\ syncStorage.filterPatterns = Str(DEFAULT_FILTERS)
    /\ handed = Hands("command", syncStorage.filterPatterns)

\* ------------------------------------------------- paragraph icons

MaxParagraphs == 2
MaxEntries == 2
MaxInjections == 2

\* the paragraph-like elements the page may hold
ParagraphEls == 1..MaxParagraphs

InitIcons ==
    /\ initialized = FALSE
    /\ paragraphCounter = 0
    /\ seen = {}
    /\ observed = {}
    /\ entries = <<>>
    /\ qualifying \in SUBSET ParagraphEls
    /\ marks = {}
    /\ buttons = [el \in ParagraphEls |-> 0]
    /\ mutated = FALSE
    /\ scanTimer = FALSE
    /\ injections = 0
    /\ EarlierIdle /\ TailIdleExcept("icons")

\* the script without the guard
NeverInitialized(flag) == FALSE

\* if (window.__csbParagraphIconsInitialized) return;
AlreadyInitialized(flag) == flag

\* scanAndObserve: the candidates not seen before are added to seen and
\* observed
scanAndObserve(candidates, s, o) ==
    [seen |-> s \cup candidates, observed |-> o \cup (candidates \ s)]

\* an injection of paragraph-icons.js: the body of the script
InjectScript ==
    /\ injections < MaxInjections
    /\ injections' = injections + 1
    /\ IF AlreadyInitialized(initialized)
       THEN UNCHANGED <<initialized, paragraphCounter, seen, observed>>
       ELSE LET scan == scanAndObserve(qualifying, {}, observed)
            IN  /\ initialized' = TRUE
                /\ paragraphCounter' = 0
                /\ seen' = scan.seen
                /\ observed' = scan.observed
    /\ UNCHANGED <<entries, qualifying, marks, buttons, mutated, scanTimer, earlierVars>>
    /\ TailKeepExcept("icons")

\* the page adds, removes, shows or hides paragraphs; the MutationObserver
\* records it once the script observes the document
PageChanges ==
    /\ \E q \in SUBSET ParagraphEls :
          /\ q # qualifying
          /\ qualifying' = q
    /\ mutated' = (mutated \/ initialized)
    /\ UNCHANGED <<initialized, paragraphCounter, seen, observed, entries, marks,
                   buttons, scanTimer, injections, earlierVars>>
    /\ TailKeepExcept("icons")

\* the MutationObserver callback: needsScan, debounceScan
OnMutations ==
    /\ mutated
    /\ mutated' = FALSE
    /\ scanTimer' = TRUE
    /\ UNCHANGED <<initialized, paragraphCounter, seen, observed, entries, qualifying,
                   marks, buttons, injections, earlierVars>>
    /\ TailKeepExcept("icons")

\* the requestAnimationFrame callback of debounceScan
OnAnimationFrame ==
    /\ scanTimer
    /\ scanTimer' = FALSE
    /\ LET scan == scanAndObserve(qualifying, seen, observed)
       IN  seen' = scan.seen /\ observed' = scan.observed
    /\ UNCHANGED <<initialized, paragraphCounter, entries, qualifying, marks, buttons,
                   mutated, injections, earlierVars>>
    /\ TailKeepExcept("icons")

\* an observed element crosses the threshold, into or out of the viewport
IntersectionChanges ==
    /\ Len(entries) < MaxEntries
    /\ \E el \in observed, isIntersecting \in BOOLEAN :
          entries' = Append(entries, [target |-> el, isIntersecting |-> isIntersecting])
    /\ UNCHANGED <<initialized, paragraphCounter, seen, observed, qualifying, marks,
                   buttons, mutated, scanTimer, injections, earlierVars>>
    /\ TailKeepExcept("icons")

\* el.getAttribute(DATA_MARK) === '1'
Marked(ms, el) == \E m \in ms : m[1] = el

\* injectIcon: the next index, the mark, one button appended
injectIcon(st, el) ==
    [st EXCEPT !.paragraphCounter = @ + 1,
               !.marks = @ \cup {<<el, st.paragraphCounter>>},
               !.buttons = [@ EXCEPT ![el] = @ + 1]]

RECURSIVE IntersectLoop(_, _, _)
\* the for loop of onIntersect, from entry k on
IntersectLoop(es, k, st) ==
    IF k > Len(es) THEN st
    ELSE IF ~es[k].isIntersecting THEN IntersectLoop(es, k + 1, st)
    ELSE LET un == [st EXCEPT !.observed = @ \ {es[k].target}]
         IN  IF Marked(un.marks, es[k].target) THEN IntersectLoop(es, k + 1, un)
             ELSE IntersectLoop(es, k + 1, injectIcon(un, es[k].target))

\* the IntersectionObserver callback with the queued entries
OnIntersect ==
    /\ entries # <<>>
    /\ LET st == IntersectLoop(entries, 1,
                     [paragraphCounter |-> paragraphCounter, marks |-> marks,
                      buttons |-> buttons, observed |-> observed])
       IN  /\ paragraphCounter' = st.paragraphCounter
           /\ marks' = st.marks
           /\ buttons' = st.buttons
           /\ observed' = st.observed
           /\ mutated' = (mutated \/ st.marks # marks)
    /\ entries' = <<>>
    /\ UNCHANGED <<initialized, seen, qualifying, scanTimer, injections, earlierVars>>
    /\ TailKeepExcept("icons")

NextIcons ==
    \/ InjectScript
    \/ PageChanges
    \/ OnMutations
    \/ OnAnimationFrame
    \/ IntersectionChanges
    \/ OnIntersect

SpecIcons == InitIcons /\ [][NextIcons]_vars

\* C30: however injections of the script, scans, mutation callbacks and
\* intersection callbacks follow each other on a page, every paragraph
\* element has at most one copy-icon button, and no two elements have the
\* same paragraph index.
C30_OneIconDistinctIndex ==
    /\ \A el \in ParagraphEls : buttons[el] <= 1
    /\ \A m1, m2 \in marks : m1[2] = m2[2] => m1[1] = m2[1]
    /\ \A m1, m2 \in marks : m1[1] = m2[1] => m1[2] = m2[2]

\* the script was injected twice and two paragraphs have their icons
C30_Witness ==
    /\ injections = 2
    /\ Cardinality(marks) = 2
    /\ \A el \in {m[1] : m \in marks} : buttons[el] = 1
    /\ paragraphCounter = 2

====
